---- MODULE Spec2Model ----
(***************************************************************************)
(* Model of the content-generation pipeline of app/ai_services.py:         *)
(* the generator helpers (generate_ai_content and the tiers behind it,     *)
(* generate_flashcards, generate_questions) as operators, and the          *)
(* ingestion requests (upload_document, process_text, process_webpage)     *)
(* as processes stepping through their statements.                         *)
(*                                                                         *)
(* A Python str is a sequence of one-character strings; a literal piece of *)
(* an f-string template is kept as one element of the sequence.            *)
(***************************************************************************)
EXTENDS Integers, Sequences, FiniteSets, TLC

\* ------------------------------------------------------------------ bounds

\* Longest text, counted in chunks of TextChunks.
MaxChunks == 2
\* Longest JSON list the LLM backend answers with.
MaxItems == 6

\* ------------------------------------------------------------ Python str

Min(a, b) == IF a < b THEN a ELSE b

\* s[:n]
Take(s, n) == SubSeq(s, 1, Min(n, Len(s)))

\* s[n:]
Drop(s, n) == SubSeq(s, Min(n, Len(s)) + 1, Len(s))

Whitespace == {" ", "\n"}

\* the cased letters of the alphabet the fixtures are written in: <<lower, upper>>
CasePairs ==
    { <<"b", "B">>, <<"d", "D">>, <<"p", "P">>, <<"s", "S">>, <<"t", "T">>, <<"x", "X">> }

UpperChars == { p[2] : p \in CasePairs }

Letters ==
    UpperChars \cup { p[1] : p \in CasePairs }
               \cup {"a", "c", "e", "f", "g", "i", "l", "m", "n", "o", "r", "u", "y"}

\* c.isupper() for a one-character string
IsUpper(c) == c \in UpperChars

LowerChar(c) ==
    IF c \in UpperChars THEN (CHOOSE p \in CasePairs : p[2] = c)[1] ELSE c

UpperChar(c) ==
    IF \E p \in CasePairs : p[1] = c
    THEN (CHOOSE p \in CasePairs : p[1] = c)[2]
    ELSE c

\* s.lower()
Lower(s) == [i \in 1..Len(s) |-> LowerChar(s[i])]

\* s.title(): a letter that follows a non-letter is upper-cased, any other lower-cased
Title(s) ==
    [i \in 1..Len(s) |->
        IF i = 1 \/ s[i - 1] \notin Letters THEN UpperChar(s[i]) ELSE LowerChar(s[i])]

RECURSIVE LStrip(_, _)
LStrip(s, chars) ==
    IF s # <<>> /\ Head(s) \in chars THEN LStrip(Tail(s), chars) ELSE s

RECURSIVE RStrip(_, _)
RStrip(s, chars) ==
    IF s # <<>> /\ s[Len(s)] \in chars
    THEN RStrip(SubSeq(s, 1, Len(s) - 1), chars)
    ELSE s

\* s.strip(chars); s.strip() is Strip(s, Whitespace)
Strip(s, chars) == RStrip(LStrip(s, chars), chars)

\* s.split(sep) for a one-character sep: empty pieces are kept
RECURSIVE SplitOn(_, _)
SplitOn(s, sep) ==
    IF \E i \in 1..Len(s) : s[i] = sep
    THEN LET i == CHOOSE k \in 1..Len(s) :
                      s[k] = sep /\ \A j \in 1..(k - 1) : s[j] # sep
         IN  <<SubSeq(s, 1, i - 1)>> \o SplitOn(SubSeq(s, i + 1, Len(s)), sep)
    ELSE <<s>>

\* the pieces of a list of strings that are not empty
RECURSIVE NonEmpty(_)
NonEmpty(ss) ==
    IF ss = <<>> THEN <<>>
    ELSE IF Head(ss) = <<>> THEN NonEmpty(Tail(ss))
    ELSE <<Head(ss)>> \o NonEmpty(Tail(ss))

SpacesOf(s) == [i \in 1..Len(s) |-> IF s[i] \in Whitespace THEN " " ELSE s[i]]

\* s.split(): split on runs of whitespace, no empty pieces
SplitWS(s) == NonEmpty(SplitOn(SpacesOf(s), " "))

\* sep.join(ss)
RECURSIVE Join(_, _)
Join(ss, sep) ==
    IF ss = <<>> THEN <<>>
    ELSE IF Len(ss) = 1 THEN Head(ss)
    ELSE Head(ss) \o sep \o Join(Tail(ss), sep)

\* s.replace(atom, '') for a one-element atom
RECURSIVE Remove(_, _)
Remove(s, atom) ==
    IF s = <<>> THEN <<>>
    ELSE IF Head(s) = atom THEN Remove(Tail(s), atom)
    ELSE <<Head(s)>> \o Remove(Tail(s), atom)

Map(xs, f(_)) == [i \in 1..Len(xs) |-> f(xs[i])]

\* -------------------------------------------------------- Python values

\* A value that is either a list of str or a str (Python is untyped: key_concepts
\* is a list where generate_*_content builds it and is split as a str where
\* generate_basic_flashcards reads it).
PyList(items) == [type |-> "list", items |-> items, chars |-> <<>>]

PyStr(chars) == [type |-> "str", items |-> <<>>, chars |-> chars]

Bundle(summary, key_concepts, notes) ==
    [summary |-> summary, key_concepts |-> key_concepts, notes |-> notes]

NoBundle == Bundle(<<>>, PyList(<<>>), <<>>)

\* ----------------------------------------- generate_enhanced_basic_content

Punct == {".", ",", "!", "?", ";", ":"}

MinConceptLen == 5
MaxKeyWords == 8
MaxConcepts == 5
MinSentenceLen == 20
MaxSentences == 3
NumPlaceholders == 3

\* [word.strip('.,!?;:') for word in words
\*      if len(word.strip('.,!?;:')) > 5 and word[0].isupper()]
RECURSIVE KeyWordsOf(_)
KeyWordsOf(words) ==
    IF words = <<>> THEN <<>>
    ELSE LET word == Head(words)
             w    == Strip(word, Punct)
         IN  IF Len(w) > MinConceptLen /\ IsUpper(word[1])
             THEN <<w>> \o KeyWordsOf(Tail(words))
             ELSE KeyWordsOf(Tail(words))

\* [s.strip() for s in sentences if len(s.strip()) > 20]
RECURSIVE LongSentences(_)
LongSentences(sentences) ==
    IF sentences = <<>> THEN <<>>
    ELSE LET t == Strip(Head(sentences), Whitespace)
         IN  IF Len(t) > MinSentenceLen
             THEN <<t>> \o LongSentences(Tail(sentences))
             ELSE LongSentences(Tail(sentences))

\* [f"{subject.title()} Concept {i+1}" for i in range(3)]
PlaceholderConcepts(subject) ==
    [i \in 1..NumPlaceholders |-> Title(subject) \o <<" Concept ", ToString(i)>>]

GenericSummary(subject) ==
    <<"This content covers important ">> \o subject
        \o <<" concepts and provides educational value.">>

BasicNotes(subject, summary_text, key_words) ==
    Title(subject) \o <<" Study Notes\n\n", "Summary:\n">> \o summary_text
        \o <<"\n\n", "Key Concepts:\n">>
        \o Join(Map(Take(key_words, MaxConcepts), LAMBDA w : <<"* ">> \o w), <<"\n">>)
        \o <<"\n\n", "Important Points:\n">> \o subject

\* The bundle with all of key_words as its key concepts, not the first five.
generate_enhanced_basic_content_all_key_words(text, subject) ==
    LET words           == SplitWS(text)
        sentences       == SplitOn(text, ".")
        key_words       == Take(KeyWordsOf(words), MaxKeyWords)
        first_sentences == LongSentences(Take(sentences, MaxSentences))
        summary_text    == IF first_sentences # <<>>
                           THEN Join(first_sentences, <<".", " ">>)
                           ELSE GenericSummary(subject)
    IN  Bundle(summary_text,
               PyList(IF key_words # <<>>
                      THEN key_words
                      ELSE PlaceholderConcepts(subject)),
               BasicNotes(subject, summary_text, key_words))

\* The summary from the first three of the sentences longer than 20 characters,
\* wherever in the text they are.
generate_enhanced_basic_content_any_three(text, subject) ==
    LET words           == SplitWS(text)
        sentences       == SplitOn(text, ".")
        key_words       == Take(KeyWordsOf(words), MaxKeyWords)
        first_sentences == Take(LongSentences(sentences), MaxSentences)
        summary_text    == IF first_sentences # <<>>
                           THEN Join(first_sentences, <<".", " ">>)
                           ELSE GenericSummary(subject)
    IN  Bundle(summary_text,
               PyList(IF key_words # <<>>
                      THEN Take(key_words, MaxConcepts)
                      ELSE PlaceholderConcepts(subject)),
               BasicNotes(subject, summary_text, key_words))

generate_enhanced_basic_content(text, subject) ==
    LET words           == SplitWS(text)
        sentences       == SplitOn(text, ".")
        key_words       == Take(KeyWordsOf(words), MaxKeyWords)
        first_sentences == LongSentences(Take(sentences, MaxSentences))
        summary_text    == IF first_sentences # <<>>
                           THEN Join(first_sentences, <<".", " ">>)
                           ELSE GenericSummary(subject)
    IN  Bundle(summary_text,
               PyList(IF key_words # <<>>
                      THEN Take(key_words, MaxConcepts)
                      ELSE PlaceholderConcepts(subject)),
               BasicNotes(subject, summary_text, key_words))

\* ------------------------------------------------ generate_openai_content

\* What a call of the LLM backend does: it raises, or answers with a message whose
\* content is None, or answers with text.
Raises == [st |-> "raise", text |-> <<>>]

AnswersNone == [st |-> "none", text |-> <<>>]

Answers(text) == [st |-> "text", text |-> text]

max_text_length == 2000
SummaryFallbackLen == 200

\* the three characters of "..."
Ellipsis == <<".", ".", ".">>

\* The text is submitted whole, whatever its length.
PromptText_whole_text(text) == text

\* text[:max_text_length] + "..." if len(text) > max_text_length
PromptText(text) ==
    IF Len(text) > max_text_length
    THEN Take(text, max_text_length) \o Ellipsis
    ELSE text

\* ai_response after the modern client: getattr(resp, "output_text", None) or
\* str(resp); None when the client is missing or its call raises
ModernResponse(llm) ==
    IF ~llm.client \/ llm.modern.st = "raise" THEN AnswersNone
    ELSE IF llm.modern.st = "none" \/ llm.modern.text = <<>>
         THEN Answers(<<"<Response>">>)
         ELSE llm.modern

\* The loop over the lines of the response; st is the loop's variables.
RECURSIVE ParseLines(_, _)
ParseLines(lines, st) ==
    IF lines = <<>> THEN st
    ELSE LET line == Strip(Head(lines), Whitespace)
             startswith(label) == line # <<>> /\ line[1] = label
             rest(label) == Strip(Remove(line, label), Whitespace)
         IN  ParseLines(Tail(lines),
                IF startswith("SUMMARY:")
                THEN [st EXCEPT !.current_section = "summary",
                                !.summary = rest("SUMMARY:")]
                ELSE IF startswith("KEY_CONCEPTS:")
                THEN [st EXCEPT !.current_section = "concepts",
                                !.key_concepts =
                                    IF rest("KEY_CONCEPTS:") # <<>>
                                    THEN Append(@, rest("KEY_CONCEPTS:"))
                                    ELSE @]
                ELSE IF startswith("NOTES:")
                THEN [st EXCEPT !.current_section = "notes",
                                !.notes = rest("NOTES:")]
                ELSE IF st.current_section = "concepts" /\ line # <<>>
                THEN [st EXCEPT !.key_concepts = Append(@, line)]
                ELSE st)

\* The parser with the whole response as the summary of a response without one.
ParseResponse_whole_response(ai_response, subject) ==
    LET parsed == ParseLines(SplitOn(ai_response, "\n"),
                             [current_section |-> "None", summary |-> <<>>,
                              key_concepts |-> <<>>, notes |-> ai_response])
        summary == IF parsed.summary = <<>> THEN ai_response ELSE parsed.summary
        key_concepts == IF parsed.key_concepts = <<>>
                        THEN PlaceholderConcepts(subject)
                        ELSE parsed.key_concepts
    IN  Bundle(summary, PyList(Take(key_concepts, MaxConcepts)), parsed.notes)

ParseResponse(ai_response, subject) ==
    LET parsed == ParseLines(SplitOn(ai_response, "\n"),
                             [current_section |-> "None", summary |-> <<>>,
                              key_concepts |-> <<>>, notes |-> ai_response])
        summary == IF parsed.summary = <<>>
                   THEN IF Len(ai_response) > SummaryFallbackLen
                        THEN Take(ai_response, SummaryFallbackLen) \o Ellipsis
                        ELSE ai_response
                   ELSE parsed.summary
        key_concepts == IF parsed.key_concepts = <<>>
                        THEN PlaceholderConcepts(subject)
                        ELSE parsed.key_concepts
    IN  Bundle(summary, PyList(Take(key_concepts, MaxConcepts)), parsed.notes)

\* The result: kind "bundle" with the bundle, or kind "raise" (the function
\* re-raises every exception as "OpenAI API error"); calls are the backend calls
\* made, in order; submitted is the text put in the prompt.
generate_openai_content(text, subject, llm) ==
    LET modern == ModernResponse(llm)
        legacy == (modern.st # "text")
        reply  == IF legacy THEN llm.legacy ELSE modern
        calls  == (IF llm.client THEN <<"responses">> ELSE <<>>)
                      \o (IF legacy THEN <<"ChatCompletion">> ELSE <<>>)
    IN  IF reply.st = "text"
        THEN [kind |-> "bundle", bundle |-> ParseResponse(reply.text, subject),
              calls |-> calls, submitted |-> PromptText(text)]
        ELSE [kind |-> "raise", bundle |-> NoBundle,
              calls |-> calls, submitted |-> PromptText(text)]

\* def generate_huggingface_content(text, subject): pass
generate_huggingface_content(text, subject) ==
    [kind |-> "none", bundle |-> NoBundle]

\* ---------------------------------------------------- generate_ai_content

\* generate_ai_content as it would be if the except branch went on to the next
\* configured tier instead of straight to the deterministic fallback.
generate_ai_content_next_tier(text, subject, env, llm) ==
    IF env.OPENAI_API_KEY /\ env.api_key
    THEN LET r == generate_openai_content(text, subject, llm)
         IN  IF r.kind = "raise"
             THEN IF env.HUGGINGFACE_API_KEY
                  THEN [kind |-> "none", bundle |-> NoBundle,
                        tiers |-> <<"openai", "huggingface">>]
                  ELSE [kind |-> "bundle",
                        bundle |-> generate_enhanced_basic_content(text, subject),
                        tiers |-> <<"openai", "basic">>]
             ELSE [kind |-> r.kind, bundle |-> r.bundle, tiers |-> <<"openai">>]
    ELSE IF env.HUGGINGFACE_API_KEY
    THEN [kind |-> "none", bundle |-> NoBundle, tiers |-> <<"huggingface">>]
    ELSE [kind |-> "bundle",
          bundle |-> generate_enhanced_basic_content(text, subject),
          tiers |-> <<"basic">>]

\* env: the module's globals OPENAI_API_KEY, openai.api_key, HUGGINGFACE_API_KEY
\* (each: is it set). The result: kind "bundle" or "none" (the function returned
\* None); tiers are the tiers entered, in order.
generate_ai_content(text, subject, env, llm) ==
    IF env.OPENAI_API_KEY /\ env.api_key
    THEN LET r == generate_openai_content(text, subject, llm)
         IN  IF r.kind = "raise"
             THEN [kind |-> "bundle",
                   bundle |-> generate_enhanced_basic_content(text, subject),
                   tiers |-> <<"openai", "basic">>]
             ELSE [kind |-> r.kind, bundle |-> r.bundle, tiers |-> <<"openai">>]
    ELSE IF env.HUGGINGFACE_API_KEY
    THEN LET r == generate_huggingface_content(text, subject)
         IN  [kind |-> r.kind, bundle |-> r.bundle, tiers |-> <<"huggingface">>]
    ELSE [kind |-> "bundle",
          bundle |-> generate_enhanced_basic_content(text, subject),
          tiers |-> <<"basic">>]

\* ------------------------------------- generate_flashcards / _questions

MaxFlashcards == 5
MaxQuestions == 3

\* An element of a flashcard or question list: a dict with the keys it has, or
\* something that is not a dict; label is the concept it was made from.
Dict(keys, label) == [shape |-> "dict", keys |-> keys, label |-> label]

Scalar == [shape |-> "scalar", keys |-> {}, label |-> <<>>]

FlashcardKeys == {"term", "definition"}

QuestionKeys == {"question", "answer", "type"}

\* What the backend's answer is as JSON: json.loads raises on "raise" (the call
\* raised), "none" and "text" (content that is None or not JSON).
JsonList(items) == [st |-> "json_list", items |-> items]

JsonOther == [st |-> "json_other", items |-> <<>>]

NotJson == [st |-> "text", items |-> <<>>]

CallRaises == [st |-> "raise", items |-> <<>>]

Returns(items) == [kind |-> "list", items |-> items]

RaisesAttributeError == [kind |-> "raise", items |-> <<>>]

\* one dict per non-empty concept.strip()
RECURSIVE ItemsOf(_, _)
ItemsOf(concepts, keys) ==
    IF concepts = <<>> THEN <<>>
    ELSE LET concept == Strip(Head(concepts), Whitespace)
         IN  IF concept # <<>>
             THEN <<Dict(keys, concept)>> \o ItemsOf(Tail(concepts), keys)
             ELSE ItemsOf(Tail(concepts), keys)

\* key_concepts.split(',') raises AttributeError on a list
generate_basic_flashcards(text, key_concepts) ==
    IF key_concepts.type # "str" THEN RaisesAttributeError
    ELSE Returns(ItemsOf(Take(SplitOn(key_concepts.chars, ","), MaxFlashcards),
                         FlashcardKeys))

generate_basic_questions(text, key_concepts) ==
    IF key_concepts.type # "str" THEN RaisesAttributeError
    ELSE Returns(ItemsOf(Take(SplitOn(key_concepts.chars, ","), MaxQuestions),
                         QuestionKeys))

\* A reply that does not parse gives the empty list, like one that is no list.
generate_flashcards_no_fallback(text, key_concepts, api_key, reply) ==
    IF api_key /\ reply.st = "json_list" THEN Returns(reply.items)
    ELSE IF api_key /\ reply.st \in {"json_other", "text"} THEN Returns(<<>>)
    ELSE generate_basic_flashcards(text, key_concepts)

\* try: if openai.api_key: <call>; try: return <list or []> except: pass
\*      return basic(...)
\* except Exception: return basic(...)
generate_flashcards(text, key_concepts, api_key, reply) ==
    IF api_key /\ reply.st = "json_list" THEN Returns(reply.items)
    ELSE IF api_key /\ reply.st = "json_other" THEN Returns(<<>>)
    ELSE generate_basic_flashcards(text, key_concepts)

generate_questions(text, key_concepts, api_key, reply) ==
    IF api_key /\ reply.st = "json_list" THEN Returns(reply.items)
    ELSE IF api_key /\ reply.st = "json_other" THEN Returns(<<>>)
    ELSE generate_basic_questions(text, key_concepts)

\* ------------------------------------------------------------- inputs

\* The pieces texts are made of: three capitalized words longer than 5 characters
\* (one with punctuation); a capitalized word of 5 characters; a lower-case
\* sentence; a sentence of 21 characters; a sentence of 20 characters.
ChunkCaps == <<"P", "l", "a", "n", "t", "s", " ", "S", "t", "o", "n", "e", "s", ",", " ", "S", "p", "r", "o", "u", "t", " ">>

ChunkShort == <<"T", "r", "e", "e", "s", "!", " ">>

ChunkLower == <<"e", "n", "e", "r", "g", "y", ".", " ">>

ChunkLong == [i \in 1..(MinSentenceLen + 1) |-> "e"] \o <<".", " ">>

ChunkEdge == [i \in 1..MinSentenceLen |-> "e"] \o <<".">>

TextChunks == {ChunkCaps, ChunkShort, ChunkLower, ChunkLong, ChunkEdge}

RECURSIVE TextsOf(_)
TextsOf(n) ==
    IF n = 0 THEN {<<>>}
    ELSE LET shorter == TextsOf(n - 1)
         IN  shorter \cup { t \o c : t \in shorter, c \in TextChunks }

Texts == TextsOf(MaxChunks)

Subjects == {<<"b", "i", "o">>, <<"a", "r", "t">>}

\* The module globals: openai.api_key is assigned OPENAI_API_KEY at import, so the
\* two are set together.
Envs ==
    { [OPENAI_API_KEY |-> k, api_key |-> k, HUGGINGFACE_API_KEY |-> h] :
        k \in BOOLEAN, h \in BOOLEAN }

\* Answers of the LLM backend to the content prompt.
ResponsePlain == <<"o", "k">>

ResponseFull ==
    <<"SUMMARY:", " ", "s", "\n", "KEY_CONCEPTS:", "\n", "a", "\n", "b", "\n", "c",
      "\n", "d", "\n", "e", "\n", "f", "\n", "NOTES:", " ", "n">>

ResponseNoSummary ==
    <<"t", "\n", "KEY_CONCEPTS:", " ", "x", "\n", "NOTES:", "\n", "y">>

Responses == {<<>>, ResponsePlain, ResponseFull, ResponseNoSummary}

LegacyReplies == {Raises, AnswersNone} \cup { Answers(r) : r \in Responses }

\* openai_client is None (no modern call), or the modern call answers, or it
\* raises and the legacy call follows.
LLMs ==
    { [client |-> FALSE, modern |-> Raises, legacy |-> l] : l \in LegacyReplies }
    \cup { [client |-> TRUE, modern |-> Answers(r), legacy |-> Raises] :
             r \in Responses }
    \cup { [client |-> TRUE, modern |-> Raises, legacy |-> l] : l \in LegacyReplies }

NoLLM == [client |-> FALSE, modern |-> Raises, legacy |-> Raises]

\* the backend is only called when the key is set
LLMsFor(env) == IF env.OPENAI_API_KEY THEN LLMs ELSE {NoLLM}

\* Answers of the LLM backend to the flashcard or question prompt: a JSON list of
\* up to MaxItems well-formed items, such a list ending in a dict without the
\* fields or in a non-dict, JSON that is not a list, text that is not JSON, or the
\* call raises.
GoodItems(keys, n) == [i \in 1..n |-> Dict(keys, <<"llm">>)]

JsonReplies(keys) ==
    { JsonList(GoodItems(keys, n)) : n \in 0..MaxItems }
    \cup { JsonList(Append(GoodItems(keys, n), bad)) :
             n \in 0..1, bad \in {Dict({"front"}, <<"llm">>), Scalar} }
    \cup {JsonOther, NotJson, CallRaises}

RepliesFor(env, keys) == IF env.api_key THEN JsonReplies(keys) ELSE {CallRaises}

\* Concept strings handed to the deterministic generators directly: n concepts
\* joined by commas, and strings of only whitespace and commas.
MaxConceptCount == 7

RECURSIVE ConceptString(_)
ConceptString(n) ==
    IF n = 0 THEN <<>>
    ELSE IF n = 1 THEN <<"c", "1">>
    ELSE ConceptString(n - 1) \o <<",", " ", "c", ToString(n)>>

ConceptStrings ==
    { PyStr(ConceptString(n)) : n \in 0..MaxConceptCount }
    \cup { PyStr(<<" ">>), PyStr(<<" ", ",", ",", " ">>) }

\* Calls of generate_ai_content with the OpenAI keys set: texts around the length
\* generate_openai_content submits, and responses around the length of the
\* summary taken from a response without one.
LongText == [i \in 1..(max_text_length + Len(Ellipsis) + 1) |-> "e"]

PromptTexts ==
    {<<>>, ChunkLower, [i \in 1..max_text_length |-> "e"], LongText}

ResponseLong == [i \in 1..(SummaryFallbackLen + Len(Ellipsis) + 1) |-> "r"]

\* concepts before the KEY_CONCEPTS: line and after the NOTES: line, which has no
\* text of its own
ResponseStray ==
    <<"u", "\n", "KEY_CONCEPTS:", "\n", " ", "v", "\n", "\n", "NOTES:", "\n",
      "w", "\n", "x">>

\* two KEY_CONCEPTS: lines with a SUMMARY: line between them
ResponseTwice ==
    <<"KEY_CONCEPTS:", " ", "a", "\n", "b", "\n", "SUMMARY:", " ", "s", "\n", "c",
      "\n", "KEY_CONCEPTS:", "\n", "d">>

\* lines in which the label of the line occurs again
ResponseRepeat ==
    <<"SUMMARY:", " ", "s", " ", "SUMMARY:", " ", "t", "\n",
      "NOTES:", " ", "n", " ", "NOTES:", "m">>

ParseResponses ==
    Responses \cup {[i \in 1..SummaryFallbackLen |-> "r"], ResponseLong,
                    ResponseStray, ResponseTwice, ResponseRepeat}

PrimaryLLMs ==
    { [client |-> FALSE, modern |-> Raises, legacy |-> Answers(r)] :
        r \in ParseResponses }
    \cup { [client |-> TRUE, modern |-> Answers(r), legacy |-> Raises] :
             r \in ParseResponses }
    \cup { [client |-> TRUE, modern |-> Raises, legacy |-> Answers(r)] :
             r \in ParseResponses }
    \cup {NoLLM}

\* Calls of generate_ai_content with no key set: texts of up to MaxPieces
\* sentences, each of 1, 20 or 21 characters.
MaxPieces == 4

SentencePieces == {<<"a", ".">>, ChunkEdge, ChunkLong}

RECURSIVE SentenceTextsOf(_)
SentenceTextsOf(n) ==
    IF n = 0 THEN {<<>>}
    ELSE LET shorter == SentenceTextsOf(n - 1)
         IN  shorter \cup { t \o c : t \in shorter, c \in SentencePieces }

SentenceTexts == SentenceTextsOf(MaxPieces)

\* The values handed to the generators directly: the concept strings and the
\* empty list of concepts.
ConceptValues == ConceptStrings \cup {PyList(<<>>)}

\* ---------------------------------------------------------------- state

VARIABLES
    gstage,     \* generator calls: "idle", "generated", "flashcards", "questions"
    gin,        \* the arguments and backend behaviour of the call of generate_ai_content
    gai,        \* its result
    gkc,        \* the key_concepts handed to generate_flashcards / generate_questions
    greply,     \* what the backend answered to that call
    gout,       \* the result of generate_flashcards / generate_questions
    gprev       \* the arguments and the returned value of the last earlier call
                \* of generate_ai_content that no backend answered

gvars == <<gstage, gin, gai, gkc, greply, gout, gprev>>

VARIABLES
    cfg,        \* the module globals (which API keys are set)
    collab,     \* the collaborators (file system, database, LLM backend): "any",
                \* they may fail and answer anything; "good", they do not fail
    pc,         \* per request: the statement it is at
    rq,         \* per request: the request (form fields, uploaded file)
    loc,        \* per request: the handler's local variables
    sess,       \* per request: db.session, the rows added and not yet committed
    made,       \* per request: how many rows it has added to its session so far
    table,      \* the committed rows (visible to every request)
    next_id,    \* the next primary key the database hands out
    fs,         \* the upload folder: path -> file
    out         \* per request: the response and the flashed message

ivars == <<cfg, collab, pc, rq, loc, sess, made, table, next_id, fs, out>>

VARIABLES
    fn,         \* calls of the functions and endpoints that keep nothing between
                \* calls: the one called last, "none" before any call
    arg,        \* what it was called with, and what its collaborators answer
    ret         \* what it returned

cvars == <<fn, arg, ret>>

vars == <<gvars, ivars, cvars>>

CallInit ==
    /\ fn = "none"
    /\ arg = <<>>
    /\ ret = <<>>

NoInput == [text |-> <<>>, subject |-> <<>>,
            env |-> [OPENAI_API_KEY |-> FALSE, api_key |-> FALSE,
                     HUGGINGFACE_API_KEY |-> FALSE],
            llm |-> NoLLM]

NoResult == [kind |-> "none", bundle |-> NoBundle, tiers |-> <<>>]

NoPrev == [called |-> FALSE, text |-> <<>>, subject |-> <<>>,
           kind |-> "none", bundle |-> NoBundle]

GenInit ==
    /\ gstage = "idle"
    /\ gin = NoInput
    /\ gai = NoResult
    /\ gkc = PyList(<<>>)
    /\ greply = CallRaises
    /\ gout = Returns(<<>>)
    /\ gprev = NoPrev

\* generate_ai_content(text, subject)
CallGenerate ==
    /\ gstage = "idle"
    /\ \E text \in Texts, subject \in Subjects, env \in Envs :
         \E llm \in LLMsFor(env) :
            /\ gin' = [text |-> text, subject |-> subject, env |-> env, llm |-> llm]
            /\ gai' = generate_ai_content(text, subject, env, llm)
    /\ gstage' = "generated"
    /\ UNCHANGED <<gkc, greply, gout, gprev>>
    /\ UNCHANGED <<ivars, cvars>>

\* generate_ai_content(text, subject) with no key set
CallBasic ==
    /\ gstage = "idle"
    /\ \E text \in SentenceTexts, subject \in Subjects :
            /\ gin' = [NoInput EXCEPT !.text = text, !.subject = subject]
            /\ gai' = generate_ai_content(text, subject, NoInput.env, NoLLM)
    /\ gstage' = "generated"
    /\ UNCHANGED <<gkc, greply, gout, gprev>>
    /\ UNCHANGED <<ivars, cvars>>

\* generate_ai_content(text, subject) with OPENAI_API_KEY and openai.api_key set
CallPrimary ==
    /\ gstage = "idle"
    /\ \E text \in PromptTexts, subject \in Subjects, llm \in PrimaryLLMs,
          env \in {e \in Envs : e.OPENAI_API_KEY /\ e.api_key} :
            /\ gin' = [text |-> text, subject |-> subject, env |-> env, llm |-> llm]
            /\ gai' = generate_ai_content(text, subject, env, llm)
    /\ gstage' = "generated"
    /\ UNCHANGED <<gkc, greply, gout, gprev>>
    /\ UNCHANGED <<ivars, cvars>>

\* No backend answers a call: no key is set, or the OpenAI keys are set and
\* every call of the backend raises (the except branch then falls back).
NoBackend(in) ==
    IF in.env.OPENAI_API_KEY /\ in.env.api_key
    THEN generate_openai_content(in.text, in.subject, in.llm).kind = "raise"
    ELSE ~in.env.HUGGINGFACE_API_KEY

\* A generate_ai_content that keeps the last bundle a backend returned and hands
\* it out again when no backend answers.
CallGenerateAgain_reuse ==
    /\ gstage \in {"generated", "again"}
    /\ \E env \in Envs :
         \E llm \in LLMsFor(env) :
            LET in == [gin EXCEPT !.env = env, !.llm = llm]
                ai == generate_ai_content(gin.text, gin.subject, env, llm)
            IN  /\ gin' = in
                /\ gai' = IF NoBackend(in) /\ ~NoBackend(gin) /\ gai.kind = "bundle"
                           THEN [ai EXCEPT !.bundle = gai.bundle]
                           ELSE ai
    /\ gprev' = IF NoBackend(gin)
                THEN [called |-> TRUE, text |-> gin.text, subject |-> gin.subject,
                      kind |-> gai.kind, bundle |-> gai.bundle]
                ELSE gprev
    /\ gstage' = "again"
    /\ UNCHANGED <<gkc, greply, gout>>
    /\ UNCHANGED <<ivars, cvars>>

\* a later call of generate_ai_content(text, subject) in the same process, with
\* the same arguments; the keys and the backend's behaviour may have changed
\* between the calls
CallGenerateAgain ==
    /\ gstage \in {"generated", "again"}
    /\ \E env \in Envs :
         \E llm \in LLMsFor(env) :
            /\ gin' = [gin EXCEPT !.env = env, !.llm = llm]
            /\ gai' = generate_ai_content(gin.text, gin.subject, env, llm)
    /\ gprev' = IF NoBackend(gin)
                THEN [called |-> TRUE, text |-> gin.text, subject |-> gin.subject,
                      kind |-> gai.kind, bundle |-> gai.bundle]
                ELSE gprev
    /\ gstage' = "again"
    /\ UNCHANGED <<gkc, greply, gout>>
    /\ UNCHANGED <<ivars, cvars>>

\* generate_flashcards(content, ai_content['key_concepts'])
CallFlashcards ==
    /\ gstage = "generated"
    /\ gai.kind = "bundle"
    /\ \E reply \in RepliesFor(gin.env, FlashcardKeys) :
         /\ greply' = reply
         /\ gout' = generate_flashcards(gin.text, gai.bundle.key_concepts,
                                        gin.env.api_key, reply)
    /\ gkc' = gai.bundle.key_concepts
    /\ gstage' = "flashcards"
    /\ UNCHANGED <<gin, gai, gprev>>
    /\ UNCHANGED <<ivars, cvars>>

\* generate_questions(content, ai_content['key_concepts'])
CallQuestions ==
    /\ gstage = "generated"
    /\ gai.kind = "bundle"
    /\ \E reply \in RepliesFor(gin.env, QuestionKeys) :
         /\ greply' = reply
         /\ gout' = generate_questions(gin.text, gai.bundle.key_concepts,
                                       gin.env.api_key, reply)
    /\ gkc' = gai.bundle.key_concepts
    /\ gstage' = "questions"
    /\ UNCHANGED <<gin, gai, gprev>>
    /\ UNCHANGED <<ivars, cvars>>

\* generate_flashcards(text, key_concepts) on a comma-separated string or on the
\* empty list
CallFlashcardsOnString ==
    /\ gstage = "idle"
    /\ \E kc \in ConceptValues, env \in Envs :
         \E reply \in RepliesFor(env, FlashcardKeys) :
            /\ gin' = [NoInput EXCEPT !.env = env]
            /\ gkc' = kc
            /\ greply' = reply
            /\ gout' = generate_flashcards(<<>>, kc, env.api_key, reply)
    /\ gstage' = "flashcards"
    /\ UNCHANGED <<gai, gprev>>
    /\ UNCHANGED <<ivars, cvars>>

\* generate_questions(text, key_concepts) on a comma-separated string or on the
\* empty list
CallQuestionsOnString ==
    /\ gstage = "idle"
    /\ \E kc \in ConceptValues, env \in Envs :
         \E reply \in RepliesFor(env, QuestionKeys) :
            /\ gin' = [NoInput EXCEPT !.env = env]
            /\ gkc' = kc
            /\ greply' = reply
            /\ gout' = generate_questions(<<>>, kc, env.api_key, reply)
    /\ gstage' = "questions"
    /\ UNCHANGED <<gai, gprev>>
    /\ UNCHANGED <<ivars, cvars>>

GenNext ==
    \/ CallGenerate
    \/ CallGenerateAgain
    \/ CallFlashcards
    \/ CallQuestions
    \/ CallFlashcardsOnString
    \/ CallQuestionsOnString

\* ================================================= extract_youtube_content

\* info['subtitles'] / info['automatic_captions']: "none", the key or its 'en'
\* entry is missing; "empty", 'en' is an empty list; "en", 'en' lists a track.
Tracks == {"none", "empty", "en"}

\* requests.get(subtitle_url): it raises, answers with a status other than 200,
\* answers 200 with an empty body, or answers 200 with the captions
Fetches == {"raise", "status", "blank", "text"}

ManualCaptions == <<"manual captions">>

AutoCaptions == <<"automatic captions">>

\* f"Title: {info.get('title', '')}\n\nDescription: {info.get('description', '')}"
TitleAndDescription(info) ==
    <<"Title: ">> \o info.title \o <<"\n\nDescription: ">> \o info.description

YoutubeRaises == [kind |-> "raise", transcript |-> <<>>]

YoutubeReturns(transcript) == [kind |-> "dict", transcript |-> transcript]

\* info: what ydl.extract_info answers (raises: it raises); manual, auto: what
\* requests.get answers for the URL of the manual and of the automatic track
extract_youtube_content(info, manual, auto) ==
    LET track == IF info.subtitles # "none" THEN info.subtitles
                 ELSE info.automatic_captions
        fetch == IF info.subtitles # "none" THEN manual ELSE auto
        text  == IF info.subtitles # "none" THEN ManualCaptions ELSE AutoCaptions
        transcript == IF track = "en" /\ fetch = "text" THEN text ELSE <<>>
    IN  IF info.raises THEN YoutubeRaises
        ELSE IF track = "empty" THEN YoutubeRaises
        ELSE IF track = "en" /\ fetch = "raise" THEN YoutubeRaises
        ELSE IF transcript = <<>> THEN YoutubeReturns(TitleAndDescription(info))
        ELSE YoutubeReturns(transcript)

Infos ==
    [raises : BOOLEAN, subtitles : Tracks, automatic_captions : Tracks,
     title : {<<>>, <<"t">>}, description : {<<>>, <<"d">>}]

CallExtractYoutube ==
    /\ fn = "none"
    /\ \E info \in Infos, manual \in Fetches, auto \in Fetches :
         /\ arg' = [info |-> info, manual |-> manual, auto |-> auto]
         /\ ret' = extract_youtube_content(info, manual, auto)
    /\ fn' = "extract_youtube_content"
    /\ UNCHANGED <<gvars, ivars>>

\* ====================================================== perform_web_search

\* Most results a search provider answers with.
MaxHits == 6

max_results == 5

\* query.replace(" ", "-")
Dashed(query) == [i \in 1..Len(query) |-> IF query[i] = " " THEN "-" ELSE query[i]]

\* one search result: {'title', 'url', 'snippet'}, here the provider it is from
\* and its position in the provider's answer
Hit(provider, i) ==
    [title |-> <<provider, " title ", ToString(i)>>,
     url |-> <<provider, " link ", ToString(i)>>,
     snippet |-> <<provider, " snippet ", ToString(i)>>]

Hits(provider, n) == [i \in 1..n |-> Hit(provider, i)]

Placeholder(query) ==
    << [title |-> <<"Educational Resource: ">> \o query,
        url |-> <<"https://example.com/education/">> \o Dashed(query),
        snippet |-> <<"Comprehensive educational content about ">> \o query
                        \o <<"...">>] >>

\* What a provider answers: the request raises (network, HTTP status, JSON), or
\* the JSON lists n results.
ProviderReplies ==
    {[st |-> "raise", n |-> 0]} \cup { [st |-> "items", n |-> n] : n \in 0..MaxHits }

\* keys: which of SERPAPI_KEY, GOOGLE_API_KEY and GOOGLE_CSE_ID are set; serp,
\* cse: what SerpAPI and Google Custom Search answer. The function returns a list.
perform_web_search(query, keys, serp, cse) ==
    LET serp_results == Take(Hits("serpapi", serp.n), max_results)
    IN  IF keys.SERPAPI_KEY /\ serp.st = "items" /\ serp_results # <<>>
        THEN serp_results
        ELSE IF keys.GOOGLE_API_KEY /\ keys.GOOGLE_CSE_ID /\ cse.st = "items"
        THEN Hits("google", cse.n)
        ELSE Placeholder(query)

SearchKeys ==
    [SERPAPI_KEY : BOOLEAN, GOOGLE_API_KEY : BOOLEAN, GOOGLE_CSE_ID : BOOLEAN]

Queries == {<<"q">>, <<"q", " ", "r">>}

CallPerformWebSearch ==
    /\ fn = "none"
    /\ \E query \in Queries, keys \in SearchKeys,
          serp \in ProviderReplies, cse \in ProviderReplies :
         /\ arg' = [query |-> query, keys |-> keys, serp |-> serp, cse |-> cse]
         /\ ret' = perform_web_search(query, keys, serp, cse)
    /\ fn' = "perform_web_search"
    /\ UNCHANGED <<gvars, ivars>>

\* ================================================================ lessons

\* current_user: AnonymousUserMixin, or a logged-in user by id
Anonymous == 0
Users == {1, 2}
Visitors == {Anonymous} \cup Users

\* Lesson.query.get_or_404(lesson_id): no such row, or the lesson with its
\* flashcards and questions
NoLesson == [found |-> FALSE]
Lessons ==
    {NoLesson} \cup
    { [found |-> TRUE, is_published |-> p, teacher_id |-> t, flashcards |-> f,
       questions |-> <<"q">>] :
        p \in BOOLEAN, t \in Users, f \in {<<"f">>, <<"f", "g">>} }

\* what a visitor gets: the status and the flashcards and questions in the body
Response(status, flashcards, questions) ==
    [status |-> status, flashcards |-> flashcards, questions |-> questions]

\* if not lesson.is_published and (not current_user.is_authenticated or
\*                                 current_user.id != lesson.teacher_id)
NotAvailable(lesson, user) ==
    ~lesson.is_published /\ (user = Anonymous \/ user # lesson.teacher_id)

\* the pages of lessons.py: get_or_404, the check, then render_template
LessonPage(lesson, user, flashcards, questions) ==
    IF ~lesson.found THEN Response(404, <<>>, <<>>)
    ELSE IF NotAvailable(lesson, user) THEN Response(302, <<>>, <<>>)
    ELSE Response(200, flashcards, questions)

\* the endpoints of lessons.py under /<id>/api: get_or_404 inside try/except
\* Exception (500), no check, then jsonify
LessonApi(lesson, flashcards, questions) ==
    IF ~lesson.found THEN Response(500, <<>>, <<>>)
    ELSE Response(200, flashcards, questions)

\* the endpoints of api.py: get_or_404 inside try/except Exception (500),
\* if not lesson.is_published: 404
PublicApi(lesson, flashcards, questions) ==
    IF ~lesson.found THEN Response(500, <<>>, <<>>)
    ELSE IF ~lesson.is_published THEN Response(404, <<>>, <<>>)
    ELSE Response(200, flashcards, questions)

Endpoints ==
    {"view", "flashcards", "questions", "quiz", "api_flashcards", "api_questions",
     "api_lesson_detail", "api_lesson_flashcards", "api_lesson_questions"}

Serve(endpoint, lesson, user) ==
    LET fs_ == IF lesson.found THEN lesson.flashcards ELSE <<>>
        qs  == IF lesson.found THEN lesson.questions ELSE <<>>
    IN  CASE endpoint = "view" -> LessonPage(lesson, user, fs_, qs)
          [] endpoint = "flashcards" -> LessonPage(lesson, user, fs_, <<>>)
          [] endpoint = "questions" -> LessonPage(lesson, user, <<>>, qs)
          [] endpoint = "quiz" -> LessonPage(lesson, user, <<>>, qs)
          [] endpoint = "api_flashcards" -> LessonApi(lesson, fs_, <<>>)
          [] endpoint = "api_questions" -> LessonApi(lesson, <<>>, qs)
          [] endpoint = "api_lesson_detail" -> PublicApi(lesson, fs_, qs)
          [] endpoint = "api_lesson_flashcards" -> PublicApi(lesson, fs_, <<>>)
          [] endpoint = "api_lesson_questions" -> PublicApi(lesson, <<>>, qs)

\* a GET of one of the lesson endpoints
CallEndpoint ==
    /\ fn = "none"
    /\ \E endpoint \in Endpoints, lesson \in Lessons, user \in Visitors :
         /\ fn' = endpoint
         /\ arg' = [lesson |-> lesson, user |-> user]
         /\ ret' = Serve(endpoint, lesson, user)
    /\ UNCHANGED <<gvars, ivars>>

\* ============================================================= ingestion

NumReqs == 3
Reqs == 1..NumReqs

ALLOWED_EXTENSIONS ==
    {<<"p", "d", "f">>, <<"d", "o", "c", "x">>, <<"t", "x", "t">>, <<"p", "p", "t">>, <<"p", "p", "t", "x">>, <<"m", "d">>}

\* filename.rsplit('.', 1): the pieces, one when there is no '.'
RSplitDot(filename) ==
    LET pieces == SplitOn(filename, ".")
    IN  IF Len(pieces) = 1 THEN pieces
        ELSE <<Join(SubSeq(pieces, 1, Len(pieces) - 1), <<".">>), pieces[Len(pieces)]>>

allowed_file(filename) ==
    /\ \E i \in 1..Len(filename) : filename[i] = "."
    /\ Lower(RSplitDot(filename)[2]) \in ALLOWED_EXTENSIONS

\* werkzeug's secure_filename on these names: leading and trailing dots and
\* underscores are stripped
secure_filename(filename) == Strip(filename, {".", "_"})

PowerPointPlaceholder == <<"PowerPoint content extraction not yet implemented.">>

\* A file of the upload folder: whose upload wrote it, the text in it, and whether
\* its extractor can read it. NoFile: the path does not exist.
File(owner, text, readable) ==
    [exists |-> TRUE, owner |-> owner, text |-> text, readable |-> readable]

NoFile == [exists |-> FALSE, owner |-> 0, text |-> <<>>, readable |-> FALSE]

NoExc == [type |-> "None", origin |-> "None"]

Exc(type, origin) == [type |-> type, origin |-> origin]

\* extract_document_content(file_path, filename), file being what is at file_path:
\* the text, or the exception raised
extract_document_content(file, filename) ==
    LET pieces == RSplitDot(filename)
        ext == Lower(pieces[2])
        read == IF file.exists /\ file.readable
                THEN [kind |-> "text", text |-> Strip(file.text, Whitespace),
                      exc |-> NoExc]
                ELSE [kind |-> "raise", text |-> <<>>,
                      exc |-> Exc("Exception", "extraction")]
    IN  IF Len(pieces) < 2
        THEN [kind |-> "raise", text |-> <<>>, exc |-> Exc("IndexError", "extraction")]
        ELSE IF ext \in {<<"p", "d", "f">>, <<"d", "o", "c", "x">>, <<"t", "x", "t">>, <<"m", "d">>}
        THEN read
        ELSE IF ext \in {<<"p", "p", "t">>, <<"p", "p", "t", "x">>}
        THEN [kind |-> "text", text |-> PowerPointPlaceholder, exc |-> NoExc]
        ELSE [kind |-> "raise", text |-> <<>>, exc |-> Exc("ValueError", "extraction")]

\* ------------------------------------------------------------ db.session

\* A row: the request that made it and its number among that request's rows, its
\* table, its primary key (0: None, not flushed yet) and its foreign keys (0: None).
Row(r, n, t, document_id, content_id, lesson_id) ==
    [req |-> r, n |-> n, t |-> t, id |-> 0, document_id |-> document_id,
     content_id |-> content_id, lesson_id |-> lesson_id]

\* flush: every pending row gets the next primary key
RECURSIVE FlushRows(_, _)
FlushRows(rows, nid) ==
    IF rows = <<>> THEN <<>>
    ELSE IF Head(rows).id = 0
         THEN <<[Head(rows) EXCEPT !.id = nid]>> \o FlushRows(Tail(rows), nid + 1)
         ELSE <<Head(rows)>> \o FlushRows(Tail(rows), nid)

Pending(rows) == Cardinality({ i \in 1..Len(rows) : rows[i].id = 0 })

RowSet(rows) == { rows[i] : i \in 1..Len(rows) }

\* The items of a generated list a loop turns into rows before an item raises:
\* item[key] raises TypeError on a non-dict and KeyError on a missing key.
ItemOk(item, keys) == item.shape = "dict" /\ keys \subseteq item.keys

RECURSIVE GoodPrefix(_, _)
GoodPrefix(items, keys) ==
    IF items = <<>> \/ ~ItemOk(Head(items), keys) THEN 0
    ELSE 1 + GoodPrefix(Tail(items), keys)

ItemExc(item) ==
    IF item.shape = "dict" THEN Exc("KeyError", "ai") ELSE Exc("TypeError", "ai")

\* ------------------------------------------------------ ingestion inputs

\* file.filename of an upload: allowed types, a type that is not allowed, no
\* extension, only an extension, empty.
Filenames ==
    {<<"a", ".", "t", "x", "t">>,
     <<"b", ".", "p", "d", "f">>,
     <<"c", ".", "p", "p", "t">>,
     <<".", "t", "x", "t">>,
     <<"a", ".", "e", "x", "e">>,
     <<"a">>,
     <<>>}

Paths == { secure_filename(f) : f \in Filenames }

IngestTexts == {<<>>, ChunkShort, ChunkCaps \o ChunkLong}

DefaultSubject == <<"b", "i", "o">>

UploadRequests ==
    { [route |-> "upload", has_file |-> h, filename |-> f, text |-> t,
       readable |-> ok, subject |-> DefaultSubject] :
        h \in BOOLEAN, f \in Filenames, t \in IngestTexts, ok \in BOOLEAN }

\* text_content of a POST /ai/process-text
TextRequests ==
    { [route |-> "text", has_file |-> FALSE, filename |-> <<>>, text |-> t,
       readable |-> TRUE, subject |-> DefaultSubject] : t \in IngestTexts }

\* The page behind webpage_url: its HTML, and whether fetching it succeeds.
Pages == {<<>>, <<"<", "p", ">">> \o ChunkShort \o <<"<", "/", "p", ">", "<", ">">>}

\* webpage_url of a POST /ai/process-webpage (has_file: a URL is given)
WebpageRequests ==
    { [route |-> "webpage", has_file |-> h, filename |-> <<>>, text |-> t,
       readable |-> ok, subject |-> DefaultSubject] :
        h \in BOOLEAN, t \in Pages, ok \in BOOLEAN }

NoRequest ==
    [route |-> "none", has_file |-> FALSE, filename |-> <<>>, text |-> <<>>,
     readable |-> FALSE, subject |-> <<>>]

\* How the backend behaves during an ingestion.
GoodLLM == [client |-> FALSE, modern |-> Raises, legacy |-> Answers(ResponseFull)]

IngestLLMs(env, how) ==
    IF env.OPENAI_API_KEY /\ how = "good" THEN {GoodLLM}
    ELSE IF env.OPENAI_API_KEY
    THEN { NoLLM,
           [client |-> FALSE, modern |-> Raises, legacy |-> Answers(ResponseFull)],
           [client |-> TRUE, modern |-> Answers(ResponsePlain), legacy |-> Raises] }
    ELSE {NoLLM}

IngestReplies(env, keys, how) ==
    IF env.api_key /\ how = "good" THEN {JsonList(GoodItems(keys, 2))}
    ELSE IF env.api_key
    THEN { JsonList(GoodItems(keys, 2)),
           JsonList(<<Dict({"front"}, <<"llm">>)>>),
           JsonList(Append(GoodItems(keys, 1), Scalar)),
           JsonOther, NotJson, CallRaises }
    ELSE {CallRaises}

\* ------------------------------------------------------ ingestion locals

\* The last eight are web_search's: the search results and the index of the one
\* being processed, the variable content ("unbound" until a page is fetched),
\* whether this result wrote its temporary file, the result each added row is
\* from, whether a flush has failed, the length of processed_results, and the
\* results whose processing raised.
NoLocals ==
    [filename |-> <<>>, saved |-> FALSE, content |-> <<>>, read_from |-> 0,
     ai |-> NoResult, items |-> <<>>, lesson |-> "none", content_id |-> 0,
     exc |-> NoExc,
     results |-> <<>>, i |-> 0, page |-> "unbound", wrote |-> FALSE,
     srcs |-> <<>>, failed |-> FALSE, processed |-> 0, raised |-> {}]

NoOut == [resp |-> "none", category |-> "none", message |-> "none", exc |-> NoExc]

\* flash(message, category) then the response
Respond(resp, category, message, exc) ==
    [resp |-> resp, category |-> category, message |-> message, exc |-> exc]

IngestInit(envs, how, at, requests) ==
    /\ cfg \in envs
    /\ collab = how
    /\ pc = at
    /\ rq = requests
    /\ loc = [r \in Reqs |-> NoLocals]
    /\ sess = [r \in Reqs |-> <<>>]
    /\ made = [r \in Reqs |-> 0]
    /\ table = {}
    /\ next_id = 1
    /\ fs = [p \in Paths |-> NoFile]
    /\ out = [r \in Reqs |-> NoOut]

\* raise inside the try block of a handler: control goes to its except clause
Raise(r, e, handler) ==
    /\ loc' = [loc EXCEPT ![r].exc = e]
    /\ pc' = [pc EXCEPT ![r] = handler]

\* ------------------------------------------------------- upload_document

\* a POST /ai/upload-document arrives
UploadPost(r) ==
    /\ pc[r] = "idle"
    /\ \E q \in UploadRequests : rq' = [rq EXCEPT ![r] = q]
    /\ pc' = [pc EXCEPT ![r] = "received"]
    /\ UNCHANGED <<gvars, cvars, cfg, collab, loc, sess, made, table, next_id, fs, out>>

\* 'document' not in request.files
UploadNoFile(r) ==
    /\ pc[r] = "received" /\ rq[r].route = "upload"
    /\ ~rq[r].has_file
    /\ out' = [out EXCEPT ![r] = Respond("redirect", "error", "No file selected", NoExc)]
    /\ pc' = [pc EXCEPT ![r] = "done"]
    /\ UNCHANGED <<gvars, cvars, cfg, collab, rq, loc, sess, made, table, next_id, fs>>

\* file.filename == ''
UploadEmptyName(r) ==
    /\ pc[r] = "received" /\ rq[r].route = "upload"
    /\ rq[r].has_file /\ rq[r].filename = <<>>
    /\ out' = [out EXCEPT ![r] = Respond("redirect", "error", "No file selected", NoExc)]
    /\ pc' = [pc EXCEPT ![r] = "done"]
    /\ UNCHANGED <<gvars, cvars, cfg, collab, rq, loc, sess, made, table, next_id, fs>>

\* not allowed_file(file.filename): falls through to render_template
UploadNotAllowed(r) ==
    /\ pc[r] = "received" /\ rq[r].route = "upload"
    /\ rq[r].has_file /\ rq[r].filename # <<>>
    /\ ~allowed_file(rq[r].filename)
    /\ out' = [out EXCEPT ![r] = Respond("form", "none", "none", NoExc)]
    /\ pc' = [pc EXCEPT ![r] = "done"]
    /\ UNCHANGED <<gvars, cvars, cfg, collab, rq, loc, sess, made, table, next_id, fs>>

\* file and allowed_file(file.filename): filename = secure_filename(file.filename)
UploadAccept(r) ==
    /\ pc[r] = "received" /\ rq[r].route = "upload"
    /\ rq[r].has_file /\ rq[r].filename # <<>>
    /\ allowed_file(rq[r].filename)
    /\ loc' = [loc EXCEPT ![r].filename = secure_filename(rq[r].filename)]
    /\ pc' = [pc EXCEPT ![r] = "save"]
    /\ UNCHANGED <<gvars, cvars, cfg, collab, rq, sess, made, table, next_id, fs, out>>

\* file.save(temp_path), before the try block: the file is written, or the write
\* raises and the request ends in an unhandled error
UploadSave(r) ==
    /\ pc[r] = "save" /\ rq[r].route = "upload"
    /\ \/ /\ fs' = [fs EXCEPT ![loc[r].filename] =
                        File(r, rq[r].text, rq[r].readable)]
          /\ loc' = [loc EXCEPT ![r].saved = TRUE]
          /\ pc' = [pc EXCEPT ![r] = "extract"]
          /\ out' = out
       \/ /\ collab = "any"
          /\ fs' = fs
          /\ loc' = loc
          /\ pc' = [pc EXCEPT ![r] = "done"]
          /\ out' = [out EXCEPT ![r] =
                        Respond("error500", "none", "none", Exc("OSError", "fs"))]
    /\ UNCHANGED <<gvars, cvars, cfg, collab, rq, sess, made, table, next_id>>

\* content = extract_document_content(temp_path, filename)
UploadExtract(r) ==
    /\ pc[r] = "extract" /\ rq[r].route = "upload"
    /\ LET file == fs[loc[r].filename]
           res == extract_document_content(file, loc[r].filename)
       IN  IF res.kind = "raise"
           THEN Raise(r, res.exc, "except")
           ELSE /\ loc' = [loc EXCEPT ![r].content = res.text,
                                      ![r].read_from = file.owner]
                /\ pc' = [pc EXCEPT ![r] = "generate"]
    /\ UNCHANGED <<gvars, cvars, cfg, collab, rq, sess, made, table, next_id, fs, out>>

\* ai_content = generate_ai_content(content, subject)
UploadGenerate(r) ==
    /\ pc[r] = "generate" /\ rq[r].route = "upload"
    /\ \E llm \in IngestLLMs(cfg, collab) :
         loc' = [loc EXCEPT ![r].ai =
                    generate_ai_content(loc[r].content, rq[r].subject, cfg, llm)]
    /\ pc' = [pc EXCEPT ![r] = "add_document"]
    /\ UNCHANGED <<gvars, cvars, cfg, collab, rq, sess, made, table, next_id, fs, out>>

\* A flush that commits: the Document row is visible as soon as it has its id.
UploadAddDocument_commit(r) ==
    /\ pc[r] = "add_document" /\ rq[r].route = "upload"
    /\ LET rows == FlushRows(Append(sess[r], Row(r, made[r] + 1, "Document", 0, 0, 0)),
                             next_id)
       IN  /\ made' = [made EXCEPT ![r] = @ + 1]
           /\ table' = table \cup RowSet(rows)
           /\ sess' = [sess EXCEPT ![r] = rows]
           /\ next_id' = next_id + 1
           /\ pc' = [pc EXCEPT ![r] = "add_content"]
    /\ UNCHANGED <<gvars, cvars, cfg, collab, rq, loc, fs, out>>

\* document = Document(...); db.session.add(document); db.session.flush()
UploadAddDocument(r) ==
    /\ pc[r] = "add_document" /\ rq[r].route = "upload"
    /\ LET added == Append(sess[r], Row(r, made[r] + 1, "Document", 0, 0, 0))
       IN  /\ made' = [made EXCEPT ![r] = @ + 1]
           /\ \/ /\ sess' = [sess EXCEPT ![r] = FlushRows(added, next_id)]
                 /\ next_id' = next_id + Pending(added)
                 /\ pc' = [pc EXCEPT ![r] = "add_content"]
                 /\ loc' = loc
              \/ /\ collab = "any"
                 /\ sess' = [sess EXCEPT ![r] = added]
                 /\ next_id' = next_id
                 /\ Raise(r, Exc("SQLAlchemyError", "db"), "except")
    /\ UNCHANGED <<gvars, cvars, cfg, collab, rq, table, fs, out>>

\* content_obj = Content(document_id=document.id, ..., ai_content['notes'], ...);
\* db.session.add(content_obj): subscripting None raises TypeError
UploadAddContent(r) ==
    /\ pc[r] = "add_content" /\ rq[r].route = "upload"
    /\ IF loc[r].ai.kind # "bundle"
       THEN /\ Raise(r, Exc("TypeError", "ai"), "except")
            /\ UNCHANGED <<sess, made>>
       ELSE /\ sess' = [sess EXCEPT ![r] =
                           Append(@, Row(r, made[r] + 1, "Content",
                                         sess[r][Len(sess[r])].id, 0, 0))]
            /\ made' = [made EXCEPT ![r] = @ + 1]
            /\ pc' = [pc EXCEPT ![r] = "flashcards"]
            /\ loc' = loc
    /\ UNCHANGED <<gvars, cvars, cfg, collab, rq, table, next_id, fs, out>>

\* content_obj.id as the session has it: None (0) until a flush
ContentObjId(rows) ==
    LET cs == { i \in 1..Len(rows) : rows[i].t = "Content" }
    IN  IF cs = {} THEN 0 ELSE rows[CHOOSE i \in cs : TRUE].id

\* the rows a loop adds for the first k items of a list
ItemRows(r, first, k, t, content_id, lesson_id) ==
    [i \in 1..k |-> Row(r, first + i, t, 0, content_id, lesson_id)]

\* flashcards = generate_flashcards(content, ai_content['key_concepts'])
UploadFlashcards(r) ==
    /\ pc[r] = "flashcards" /\ rq[r].route = "upload"
    /\ \E reply \in IngestReplies(cfg, FlashcardKeys, collab) :
         LET res == generate_flashcards(loc[r].content, loc[r].ai.bundle.key_concepts,
                                        cfg.api_key, reply)
         IN  IF res.kind = "raise"
             THEN Raise(r, Exc("AttributeError", "ai"), "except")
             ELSE /\ loc' = [loc EXCEPT ![r].items = res.items]
                  /\ pc' = [pc EXCEPT ![r] = "add_flashcards"]
    /\ UNCHANGED <<gvars, cvars, cfg, collab, rq, sess, made, table, next_id, fs, out>>

\* for flashcard_data in flashcards: Flashcard(term=flashcard_data['term'],
\*     definition=flashcard_data['definition'], content_id=content_obj.id, ...)
UploadAddFlashcards(r) ==
    /\ pc[r] = "add_flashcards" /\ rq[r].route = "upload"
    /\ LET items == loc[r].items
           k == GoodPrefix(items, FlashcardKeys)
       IN  /\ sess' = [sess EXCEPT ![r] =
                          @ \o ItemRows(r, made[r], k, "Flashcard",
                                        ContentObjId(sess[r]), 0)]
           /\ made' = [made EXCEPT ![r] = @ + k]
           /\ IF k < Len(items)
              THEN Raise(r, ItemExc(items[k + 1]), "except")
              ELSE /\ pc' = [pc EXCEPT ![r] = "questions"]
                   /\ loc' = loc
    /\ UNCHANGED <<gvars, cvars, cfg, collab, rq, table, next_id, fs, out>>

\* questions = generate_questions(content, ai_content['key_concepts'])
UploadQuestions(r) ==
    /\ pc[r] = "questions" /\ rq[r].route = "upload"
    /\ \E reply \in IngestReplies(cfg, QuestionKeys, collab) :
         LET res == generate_questions(loc[r].content, loc[r].ai.bundle.key_concepts,
                                       cfg.api_key, reply)
         IN  IF res.kind = "raise"
             THEN Raise(r, Exc("AttributeError", "ai"), "except")
             ELSE /\ loc' = [loc EXCEPT ![r].items = res.items]
                  /\ pc' = [pc EXCEPT ![r] = "add_questions"]
    /\ UNCHANGED <<gvars, cvars, cfg, collab, rq, sess, made, table, next_id, fs, out>>

\* for question_data in questions: Question(question_text=question_data['question'],
\*     answer_text=question_data['answer'], question_type=question_data['type'],
\*     content_id=content_obj.id, ...)
UploadAddQuestions(r) ==
    /\ pc[r] = "add_questions" /\ rq[r].route = "upload"
    /\ LET items == loc[r].items
           k == GoodPrefix(items, QuestionKeys)
       IN  /\ sess' = [sess EXCEPT ![r] =
                          @ \o ItemRows(r, made[r], k, "Question",
                                        ContentObjId(sess[r]), 0)]
           /\ made' = [made EXCEPT ![r] = @ + k]
           /\ IF k < Len(items)
              THEN Raise(r, ItemExc(items[k + 1]), "except")
              ELSE /\ pc' = [pc EXCEPT ![r] = "lesson"]
                   /\ loc' = loc
    /\ UNCHANGED <<gvars, cvars, cfg, collab, rq, table, next_id, fs, out>>

\* what the database raises for a Lesson row it rejects
LessonRejected == Exc("IntegrityError", "db")

\* try: lesson = create_lesson_from_content(...); db.session.add(lesson)
\* except Exception: pass
\* The Lesson is added ("valid"), or building or adding it raises and the except
\* clause passes ("raised"), or it is added with a value the database rejects when
\* it writes the row ("invalid": age_group_target is NOT NULL and
\* current_user.age_group may be None).
UploadLesson(r) ==
    /\ pc[r] = "lesson" /\ rq[r].route = "upload"
    /\ \/ /\ sess' = [sess EXCEPT ![r] =
                         Append(@, Row(r, made[r] + 1, "Lesson", 0, 0, 0))]
          /\ made' = [made EXCEPT ![r] = @ + 1]
          /\ \/ loc' = [loc EXCEPT ![r].lesson = "valid"]
             \/ /\ collab = "any"
                /\ loc' = [loc EXCEPT ![r].lesson = "invalid"]
       \/ /\ collab = "any"
          /\ loc' = [loc EXCEPT ![r].lesson = "raised"]
          /\ UNCHANGED <<sess, made>>
    /\ pc' = [pc EXCEPT ![r] = "commit"]
    /\ UNCHANGED <<gvars, cvars, cfg, collab, rq, table, next_id, fs, out>>

\* db.session.commit(): flushes what is pending and commits, or raises with
\* nothing committed; it raises when the session holds a row the database rejects
UploadCommit(r) ==
    /\ pc[r] = "commit" /\ rq[r].route = "upload"
    /\ \/ LET rows == FlushRows(sess[r], next_id)
          IN  /\ loc[r].lesson # "invalid"
              /\ table' = table \cup RowSet(rows)
              /\ next_id' = next_id + Pending(sess[r])
              /\ sess' = [sess EXCEPT ![r] = <<>>]
              /\ loc' = [loc EXCEPT ![r].content_id = ContentObjId(rows)]
              /\ pc' = [pc EXCEPT ![r] = "remove"]
       \/ /\ loc[r].lesson = "invalid"
          /\ Raise(r, LessonRejected, "except")
          /\ UNCHANGED <<table, next_id, sess>>
       \/ /\ collab = "any"
          /\ Raise(r, Exc("SQLAlchemyError", "db"), "except")
          /\ UNCHANGED <<table, next_id, sess>>
    /\ UNCHANGED <<gvars, cvars, cfg, collab, rq, made, fs, out>>

\* os.remove(temp_path) after the commit, then flash(success) and the redirect to
\* the content; os.remove raises when the path is gone or cannot be removed
UploadRemove(r) ==
    /\ pc[r] = "remove" /\ rq[r].route = "upload"
    /\ \/ /\ fs[loc[r].filename].exists
          /\ fs' = [fs EXCEPT ![loc[r].filename] = NoFile]
          /\ out' = [out EXCEPT ![r] =
                        Respond("redirect_content", "success",
                                "Document processed successfully! Lesson created from upload.", NoExc)]
          /\ pc' = [pc EXCEPT ![r] = "done"]
          /\ loc' = loc
       \/ /\ ~fs[loc[r].filename].exists
          /\ Raise(r, Exc("FileNotFoundError", "fs"), "except")
          /\ UNCHANGED <<fs, out>>
       \/ /\ collab = "any"
          /\ fs[loc[r].filename].exists
          /\ Raise(r, Exc("OSError", "fs"), "except")
          /\ UNCHANGED <<fs, out>>
    /\ UNCHANGED <<gvars, cvars, cfg, collab, rq, sess, made, table, next_id>>

\* An except clause that rolls back and runs the pipeline again.
UploadExcept_retry(r) ==
    /\ pc[r] = "except" /\ rq[r].route = "upload"
    /\ sess' = [sess EXCEPT ![r] = <<>>]
    /\ pc' = [pc EXCEPT ![r] = "extract"]
    /\ UNCHANGED <<gvars, cvars, cfg, collab, rq, loc, made, table, next_id, fs, out>>

\* except Exception as e: db.session.rollback(); a rollback that raises leaves the
\* handler, and the request ends in an unhandled error
UploadExcept(r) ==
    /\ pc[r] = "except" /\ rq[r].route = "upload"
    /\ sess' = [sess EXCEPT ![r] = <<>>]
    /\ \/ /\ pc' = [pc EXCEPT ![r] = "cleanup"]
          /\ out' = out
       \/ /\ collab = "any"
          /\ pc' = [pc EXCEPT ![r] = "done"]
          /\ out' = [out EXCEPT ![r] =
                        Respond("error500", "none", "none",
                                Exc("SQLAlchemyError", "db"))]
    /\ UNCHANGED <<gvars, cvars, cfg, collab, rq, loc, made, table, next_id, fs>>

\* if os.path.exists(temp_path): ... else flash(error) and the redirect
UploadCleanup(r) ==
    /\ pc[r] = "cleanup" /\ rq[r].route = "upload"
    /\ IF fs[loc[r].filename].exists
       THEN /\ pc' = [pc EXCEPT ![r] = "cleanup_remove"]
            /\ out' = out
       ELSE /\ pc' = [pc EXCEPT ![r] = "done"]
            /\ out' = [out EXCEPT ![r] =
                          Respond("redirect", "error", "Error processing document: ",
                                  loc[r].exc)]
    /\ UNCHANGED <<gvars, cvars, cfg, collab, rq, loc, sess, made, table, next_id, fs>>

\* os.remove(temp_path) in the except clause, then flash(error) and the redirect;
\* an os.remove that raises leaves the handler
UploadCleanupRemove(r) ==
    /\ pc[r] = "cleanup_remove" /\ rq[r].route = "upload"
    /\ \/ /\ fs[loc[r].filename].exists
          /\ fs' = [fs EXCEPT ![loc[r].filename] = NoFile]
          /\ out' = [out EXCEPT ![r] =
                        Respond("redirect", "error", "Error processing document: ",
                                loc[r].exc)]
       \/ /\ ~fs[loc[r].filename].exists
          /\ fs' = fs
          /\ out' = [out EXCEPT ![r] =
                        Respond("error500", "none", "none",
                                Exc("FileNotFoundError", "fs"))]
       \/ /\ collab = "any"
          /\ fs[loc[r].filename].exists
          /\ fs' = fs
          /\ out' = [out EXCEPT ![r] =
                        Respond("error500", "none", "none", Exc("OSError", "fs"))]
    /\ pc' = [pc EXCEPT ![r] = "done"]
    /\ UNCHANGED <<gvars, cvars, cfg, collab, rq, loc, sess, made, table, next_id>>

Upload(r) ==
    \/ UploadPost(r)
    \/ UploadNoFile(r)
    \/ UploadEmptyName(r)
    \/ UploadNotAllowed(r)
    \/ UploadAccept(r)
    \/ UploadSave(r)
    \/ UploadExtract(r)
    \/ UploadGenerate(r)
    \/ UploadAddDocument(r)
    \/ UploadAddContent(r)
    \/ UploadFlashcards(r)
    \/ UploadAddFlashcards(r)
    \/ UploadQuestions(r)
    \/ UploadAddQuestions(r)
    \/ UploadLesson(r)
    \/ UploadCommit(r)
    \/ UploadRemove(r)
    \/ UploadExcept(r)
    \/ UploadCleanup(r)
    \/ UploadCleanupRemove(r)

\* ---------------------------------------------------------- process_text

\* a POST /ai/process-text arrives
TextPost(r) ==
    /\ pc[r] = "idle"
    /\ \E q \in TextRequests : rq' = [rq EXCEPT ![r] = q]
    /\ pc' = [pc EXCEPT ![r] = "received"]
    /\ UNCHANGED <<gvars, cvars, cfg, collab, loc, sess, made, table, next_id, fs, out>>

\* if not text_content: flash(error) and the redirect
TextReject(r) ==
    /\ pc[r] = "received" /\ rq[r].route = "text"
    /\ rq[r].text = <<>>
    /\ out' = [out EXCEPT ![r] =
                  Respond("redirect", "error", "No text content provided", NoExc)]
    /\ pc' = [pc EXCEPT ![r] = "done"]
    /\ UNCHANGED <<gvars, cvars, cfg, collab, rq, loc, sess, made, table, next_id, fs>>

\* ai_content = generate_ai_content(text_content, subject)
TextGenerate(r) ==
    /\ pc[r] = "received" /\ rq[r].route = "text"
    /\ rq[r].text # <<>>
    /\ \E llm \in IngestLLMs(cfg, collab) :
         loc' = [loc EXCEPT ![r].content = rq[r].text,
                            ![r].ai = generate_ai_content(rq[r].text, rq[r].subject,
                                                          cfg, llm)]
    /\ pc' = [pc EXCEPT ![r] = "add_document"]
    /\ UNCHANGED <<gvars, cvars, cfg, collab, rq, sess, made, table, next_id, fs, out>>

\* document = Document(...); db.session.add(document); db.session.flush()
TextAddDocument(r) ==
    /\ pc[r] = "add_document" /\ rq[r].route = "text"
    /\ LET added == Append(sess[r], Row(r, made[r] + 1, "Document", 0, 0, 0))
       IN  /\ made' = [made EXCEPT ![r] = @ + 1]
           /\ \/ /\ sess' = [sess EXCEPT ![r] = FlushRows(added, next_id)]
                 /\ next_id' = next_id + Pending(added)
                 /\ pc' = [pc EXCEPT ![r] = "add_content"]
                 /\ loc' = loc
              \/ /\ collab = "any"
                 /\ sess' = [sess EXCEPT ![r] = added]
                 /\ next_id' = next_id
                 /\ Raise(r, Exc("SQLAlchemyError", "db"), "except")
    /\ UNCHANGED <<gvars, cvars, cfg, collab, rq, table, fs, out>>

\* content_obj = Content(document_id=document.id, ...); db.session.add(content_obj)
TextAddContent(r) ==
    /\ pc[r] = "add_content" /\ rq[r].route = "text"
    /\ IF loc[r].ai.kind # "bundle"
       THEN /\ Raise(r, Exc("TypeError", "ai"), "except")
            /\ UNCHANGED <<sess, made>>
       ELSE /\ sess' = [sess EXCEPT ![r] =
                           Append(@, Row(r, made[r] + 1, "Content",
                                         sess[r][Len(sess[r])].id, 0, 0))]
            /\ made' = [made EXCEPT ![r] = @ + 1]
            /\ pc' = [pc EXCEPT ![r] = "flashcards"]
            /\ loc' = loc
    /\ UNCHANGED <<gvars, cvars, cfg, collab, rq, table, next_id, fs, out>>

\* flashcards = generate_flashcards(text_content, ai_content['key_concepts'])
TextFlashcards(r) ==
    /\ pc[r] = "flashcards" /\ rq[r].route = "text"
    /\ \E reply \in IngestReplies(cfg, FlashcardKeys, collab) :
         LET res == generate_flashcards(loc[r].content, loc[r].ai.bundle.key_concepts,
                                        cfg.api_key, reply)
         IN  IF res.kind = "raise"
             THEN Raise(r, Exc("AttributeError", "ai"), "except")
             ELSE /\ loc' = [loc EXCEPT ![r].items = res.items]
                  /\ pc' = [pc EXCEPT ![r] = "add_flashcards"]
    /\ UNCHANGED <<gvars, cvars, cfg, collab, rq, sess, made, table, next_id, fs, out>>

\* for flashcard_data in flashcards: Flashcard(term=flashcard_data['term'],
\*     definition=flashcard_data['definition'], context=flashcard_data.get('context'),
\*     example=flashcard_data.get('example'), lesson_id=1)
TextAddFlashcards(r) ==
    /\ pc[r] = "add_flashcards" /\ rq[r].route = "text"
    /\ LET items == loc[r].items
           k == GoodPrefix(items, FlashcardKeys)
       IN  /\ sess' = [sess EXCEPT ![r] =
                          @ \o ItemRows(r, made[r], k, "Flashcard", 0, 1)]
           /\ made' = [made EXCEPT ![r] = @ + k]
           /\ IF k < Len(items)
              THEN Raise(r, ItemExc(items[k + 1]), "except")
              ELSE /\ pc' = [pc EXCEPT ![r] = "commit"]
                   /\ loc' = loc
    /\ UNCHANGED <<gvars, cvars, cfg, collab, rq, table, next_id, fs, out>>

\* db.session.commit(); flash(success) and the redirect to the content
TextCommit(r) ==
    /\ pc[r] = "commit" /\ rq[r].route = "text"
    /\ \/ LET rows == FlushRows(sess[r], next_id)
          IN  /\ table' = table \cup RowSet(rows)
              /\ next_id' = next_id + Pending(sess[r])
              /\ sess' = [sess EXCEPT ![r] = <<>>]
              /\ loc' = [loc EXCEPT ![r].content_id = ContentObjId(rows)]
              /\ out' = [out EXCEPT ![r] =
                            Respond("redirect_content", "success",
                                    "Text content processed successfully!", NoExc)]
              /\ pc' = [pc EXCEPT ![r] = "done"]
       \/ /\ collab = "any"
          /\ Raise(r, Exc("SQLAlchemyError", "db"), "except")
          /\ UNCHANGED <<table, next_id, sess, out>>
    /\ UNCHANGED <<gvars, cvars, cfg, collab, rq, made, fs>>

\* except Exception as e: db.session.rollback(); flash(error) and the redirect
TextExcept(r) ==
    /\ pc[r] = "except" /\ rq[r].route = "text"
    /\ sess' = [sess EXCEPT ![r] = <<>>]
    /\ \/ out' = [out EXCEPT ![r] =
                     Respond("redirect", "error", "Error processing text: ", loc[r].exc)]
       \/ /\ collab = "any"
          /\ out' = [out EXCEPT ![r] =
                        Respond("error500", "none", "none",
                                Exc("SQLAlchemyError", "db"))]
    /\ pc' = [pc EXCEPT ![r] = "done"]
    /\ UNCHANGED <<gvars, cvars, cfg, collab, rq, loc, made, table, next_id, fs>>

ProcessText(r) ==
    \/ TextPost(r)
    \/ TextReject(r)
    \/ TextGenerate(r)
    \/ TextAddDocument(r)
    \/ TextAddContent(r)
    \/ TextFlashcards(r)
    \/ TextAddFlashcards(r)
    \/ TextCommit(r)
    \/ TextExcept(r)

\* ------------------------------------------------------- process_webpage

\* re.sub(r'<[^>]+>', '', html): a '<', one or more characters that are not '>',
\* and a '>' are dropped
RECURSIVE StripTags(_)
StripTags(s) ==
    IF s = <<>> THEN <<>>
    ELSE IF /\ Head(s) = "<"
            /\ \E j \in 3..Len(s) : s[j] = ">" /\ \A k \in 2..(j - 1) : s[k] # ">"
         THEN LET j == CHOOSE k \in 3..Len(s) :
                           s[k] = ">" /\ \A m \in 2..(k - 1) : s[m] # ">"
              IN  StripTags(SubSeq(s, j + 1, Len(s)))
         ELSE <<Head(s)>> \o StripTags(Tail(s))

\* re.sub(r'\s+', ' ', s).strip()
CollapseSpaces(s) == Join(SplitWS(s), <<" ">>)

\* a POST /ai/process-webpage arrives
WebpagePost(r) ==
    /\ pc[r] = "idle"
    /\ \E q \in WebpageRequests : rq' = [rq EXCEPT ![r] = q]
    /\ pc' = [pc EXCEPT ![r] = "received"]
    /\ UNCHANGED <<gvars, cvars, cfg, collab, loc, sess, made, table, next_id, fs, out>>

\* if not webpage_url: flash(error) and the redirect
WebpageReject(r) ==
    /\ pc[r] = "received" /\ rq[r].route = "webpage"
    /\ ~rq[r].has_file
    /\ out' = [out EXCEPT ![r] = Respond("redirect", "error", "No URL provided", NoExc)]
    /\ pc' = [pc EXCEPT ![r] = "done"]
    /\ UNCHANGED <<gvars, cvars, cfg, collab, rq, loc, sess, made, table, next_id, fs>>

\* response = requests.get(webpage_url); response.raise_for_status(); the two re.sub
WebpageFetch(r) ==
    /\ pc[r] = "received" /\ rq[r].route = "webpage"
    /\ rq[r].has_file
    /\ IF rq[r].readable
       THEN /\ loc' = [loc EXCEPT ![r].content = CollapseSpaces(StripTags(rq[r].text))]
            /\ pc' = [pc EXCEPT ![r] = "generate"]
       ELSE Raise(r, Exc("RequestException", "extraction"), "except")
    /\ UNCHANGED <<gvars, cvars, cfg, collab, rq, sess, made, table, next_id, fs, out>>

\* ai_content = generate_ai_content(content, subject)
WebpageGenerate(r) ==
    /\ pc[r] = "generate" /\ rq[r].route = "webpage"
    /\ \E llm \in IngestLLMs(cfg, collab) :
         loc' = [loc EXCEPT ![r].ai =
                    generate_ai_content(loc[r].content, rq[r].subject, cfg, llm)]
    /\ pc' = [pc EXCEPT ![r] = "add_document"]
    /\ UNCHANGED <<gvars, cvars, cfg, collab, rq, sess, made, table, next_id, fs, out>>

\* document = Document(...); db.session.add(document); db.session.flush()
WebpageAddDocument(r) ==
    /\ pc[r] = "add_document" /\ rq[r].route = "webpage"
    /\ LET added == Append(sess[r], Row(r, made[r] + 1, "Document", 0, 0, 0))
       IN  /\ made' = [made EXCEPT ![r] = @ + 1]
           /\ \/ /\ sess' = [sess EXCEPT ![r] = FlushRows(added, next_id)]
                 /\ next_id' = next_id + Pending(added)
                 /\ pc' = [pc EXCEPT ![r] = "add_content"]
                 /\ loc' = loc
              \/ /\ collab = "any"
                 /\ sess' = [sess EXCEPT ![r] = added]
                 /\ next_id' = next_id
                 /\ Raise(r, Exc("SQLAlchemyError", "db"), "except")
    /\ UNCHANGED <<gvars, cvars, cfg, collab, rq, table, fs, out>>

\* content_obj = Content(document_id=document.id, ...); db.session.add(content_obj)
WebpageAddContent(r) ==
    /\ pc[r] = "add_content" /\ rq[r].route = "webpage"
    /\ IF loc[r].ai.kind # "bundle"
       THEN /\ Raise(r, Exc("TypeError", "ai"), "except")
            /\ UNCHANGED <<sess, made>>
       ELSE /\ sess' = [sess EXCEPT ![r] =
                           Append(@, Row(r, made[r] + 1, "Content",
                                         sess[r][Len(sess[r])].id, 0, 0))]
            /\ made' = [made EXCEPT ![r] = @ + 1]
            /\ pc' = [pc EXCEPT ![r] = "commit"]
            /\ loc' = loc
    /\ UNCHANGED <<gvars, cvars, cfg, collab, rq, table, next_id, fs, out>>

\* db.session.commit(); flash(success) and the redirect to the content
WebpageCommit(r) ==
    /\ pc[r] = "commit" /\ rq[r].route = "webpage"
    /\ \/ LET rows == FlushRows(sess[r], next_id)
          IN  /\ table' = table \cup RowSet(rows)
              /\ next_id' = next_id + Pending(sess[r])
              /\ sess' = [sess EXCEPT ![r] = <<>>]
              /\ loc' = [loc EXCEPT ![r].content_id = ContentObjId(rows)]
              /\ out' = [out EXCEPT ![r] =
                            Respond("redirect_content", "success",
                                    "Text content processed successfully!", NoExc)]
              /\ pc' = [pc EXCEPT ![r] = "done"]
       \/ /\ collab = "any"
          /\ Raise(r, Exc("SQLAlchemyError", "db"), "except")
          /\ UNCHANGED <<table, next_id, sess, out>>
    /\ UNCHANGED <<gvars, cvars, cfg, collab, rq, made, fs>>

\* except Exception as e: db.session.rollback(); flash(error) and the redirect
WebpageExcept(r) ==
    /\ pc[r] = "except" /\ rq[r].route = "webpage"
    /\ sess' = [sess EXCEPT ![r] = <<>>]
    /\ \/ out' = [out EXCEPT ![r] =
                     Respond("redirect", "error", "Error processing webpage: ",
                             loc[r].exc)]
       \/ /\ collab = "any"
          /\ out' = [out EXCEPT ![r] =
                        Respond("error500", "none", "none",
                                Exc("SQLAlchemyError", "db"))]
    /\ pc' = [pc EXCEPT ![r] = "done"]
    /\ UNCHANGED <<gvars, cvars, cfg, collab, rq, loc, made, table, next_id, fs>>

ProcessWebpage(r) ==
    \/ WebpagePost(r)
    \/ WebpageReject(r)
    \/ WebpageFetch(r)
    \/ WebpageGenerate(r)
    \/ WebpageAddDocument(r)
    \/ WebpageAddContent(r)
    \/ WebpageCommit(r)
    \/ WebpageExcept(r)

\* ------------------------------------------------------------ web_search

\* Most results perform_web_search hands to web_search.
MaxResults == 2

\* What perform_web_search returned: per result, whether its url ends with .pdf
\* or .docx ("doc") or not ("page").
RECURSIVE ResultLists(_)
ResultLists(n) ==
    IF n = 0 THEN {<<>>}
    ELSE LET shorter == ResultLists(n - 1)
         IN  shorter \cup { Append(l, k) : l \in shorter, k \in {"doc", "page"} }

\* search_query and max_results of a POST /ai/web-search: whether a query is
\* given, and whether int() accepts max_results
SearchRequests ==
    { [route |-> "search", search_query |-> q, max_results_ok |-> ok,
       subject |-> DefaultSubject] : q \in BOOLEAN, ok \in BOOLEAN }

\* secure_filename(url.split('/')[-1]) of a result that is a document
DocFilename == <<"b", ".", "p", "d", "f">>

\* what extract_webpage_content returns: None, at most 100 characters, or more
PageContents(how) == IF how = "good" THEN {"long"} ELSE {"none", "short", "long"}

\* a POST /ai/web-search arrives
SearchPost(r) ==
    /\ pc[r] = "idle"
    /\ \E q \in SearchRequests : rq' = [rq EXCEPT ![r] = q]
    /\ pc' = [pc EXCEPT ![r] = "s_received"]
    /\ UNCHANGED <<gvars, cvars, cfg, collab, loc, sess, made, table, next_id, fs, out>>

\* max_results = int(request.form.get('max_results', 5)), inside the outer try;
\* if not search_query: flash, redirect
SearchParse(r) ==
    /\ pc[r] = "s_received" /\ rq[r].route = "search"
    /\ IF ~rq[r].max_results_ok
       THEN /\ Raise(r, Exc("ValueError", "input"), "s_except")
            /\ out' = out
       ELSE IF ~rq[r].search_query
       THEN /\ out' = [out EXCEPT ![r] =
                          Respond("redirect", "error", "Search query is required.",
                                  NoExc)]
            /\ pc' = [pc EXCEPT ![r] = "done"]
            /\ loc' = loc
       ELSE /\ pc' = [pc EXCEPT ![r] = "s_search"]
            /\ UNCHANGED <<loc, out>>
    /\ UNCHANGED <<gvars, cvars, cfg, collab, rq, sess, made, table, next_id, fs>>

\* search_results = perform_web_search(search_query, max_results)
SearchPerform(r) ==
    /\ pc[r] = "s_search" /\ rq[r].route = "search"
    /\ \E results \in ResultLists(MaxResults) :
         loc' = [loc EXCEPT ![r].results = results, ![r].i = 1]
    /\ pc' = [pc EXCEPT ![r] = "s_next"]
    /\ UNCHANGED <<gvars, cvars, cfg, collab, rq, sess, made, table, next_id, fs, out>>

\* for result in search_results: ... if url.lower().endswith(('.pdf', '.docx'))
SearchNext(r) ==
    /\ pc[r] = "s_next" /\ rq[r].route = "search"
    /\ pc' = [pc EXCEPT ![r] =
                 IF loc[r].i > Len(loc[r].results) THEN "s_commit"
                 ELSE IF loc[r].results[loc[r].i] = "doc" THEN "s_download"
                 ELSE "s_page"]
    /\ loc' = [loc EXCEPT ![r].wrote = FALSE]
    /\ UNCHANGED <<gvars, cvars, cfg, collab, rq, sess, made, table, next_id, fs, out>>

\* file_resp = requests.get(url); if file_resp.status_code == 200: the content is
\* written to temp_path
SearchDownload(r) ==
    /\ pc[r] = "s_download" /\ rq[r].route = "search"
    /\ \/ \E text \in IngestTexts, ok \in BOOLEAN :
            /\ ok \/ collab = "any"
            /\ fs' = [fs EXCEPT ![DocFilename] = File(r, text, ok)]
            /\ loc' = [loc EXCEPT ![r].filename = DocFilename, ![r].wrote = TRUE]
            /\ pc' = [pc EXCEPT ![r] = "s_extract"]
       \/ /\ collab = "any"
          /\ pc' = [pc EXCEPT ![r] = "s_tail"]
          /\ UNCHANGED <<fs, loc>>
       \/ /\ collab = "any"
          /\ Raise(r, Exc("RequestException", "fetch"), "s_skip")
          /\ fs' = fs
    /\ UNCHANGED <<gvars, cvars, cfg, collab, rq, sess, made, table, next_id, out>>

\* extracted_text = extract_document_content(temp_path, filename)
SearchExtract(r) ==
    /\ pc[r] = "s_extract" /\ rq[r].route = "search"
    /\ LET res == extract_document_content(fs[loc[r].filename], loc[r].filename)
       IN  IF res.kind = "raise"
           THEN Raise(r, res.exc, "s_skip")
           ELSE /\ loc' = [loc EXCEPT ![r].content = res.text]
                /\ pc' = [pc EXCEPT ![r] = "s_generate"]
    /\ UNCHANGED <<gvars, cvars, cfg, collab, rq, sess, made, table, next_id, fs, out>>

\* ai_content = generate_ai_content(extracted_text, subject)
SearchGenerate(r) ==
    /\ pc[r] = "s_generate" /\ rq[r].route = "search"
    /\ \E llm \in IngestLLMs(cfg, collab) :
         loc' = [loc EXCEPT ![r].ai =
                    generate_ai_content(loc[r].content, rq[r].subject, cfg, llm)]
    /\ pc' = [pc EXCEPT ![r] = "s_add_document"]
    /\ UNCHANGED <<gvars, cvars, cfg, collab, rq, sess, made, table, next_id, fs, out>>

\* document = Document(...); db.session.add(document); db.session.flush(): a flush
\* raises when the database fails, and from then on until a rollback
SearchFlush(r, rows, to) ==
    /\ made' = [made EXCEPT ![r] = @ + 1]
    /\ \/ /\ ~loc[r].failed
          /\ sess' = [sess EXCEPT ![r] = FlushRows(rows, next_id)]
          /\ next_id' = next_id + Pending(rows)
          /\ pc' = [pc EXCEPT ![r] = to]
          /\ loc' = [loc EXCEPT ![r].srcs = Append(@, loc[r].i)]
       \/ /\ loc[r].failed \/ collab = "any"
          /\ sess' = [sess EXCEPT ![r] = rows]
          /\ next_id' = next_id
          /\ pc' = [pc EXCEPT ![r] = "s_skip"]
          /\ loc' = [loc EXCEPT ![r].srcs = Append(@, loc[r].i),
                                ![r].failed = TRUE,
                                ![r].exc = Exc("SQLAlchemyError", "db")]

SearchAddDocument(r) ==
    /\ pc[r] = "s_add_document" /\ rq[r].route = "search"
    /\ SearchFlush(r, Append(sess[r], Row(r, made[r] + 1, "Document", 0, 0, 0)),
                   "s_add_content")
    /\ UNCHANGED <<gvars, cvars, cfg, collab, rq, table, fs, out>>

\* content_obj = Content(document_id=document.id, ..., ai_content['notes'], ...);
\* db.session.add(content_obj): subscripting None raises TypeError
SearchAddContent(r) ==
    /\ pc[r] = "s_add_content" /\ rq[r].route = "search"
    /\ IF loc[r].ai.kind # "bundle"
       THEN /\ Raise(r, Exc("TypeError", "ai"), "s_skip")
            /\ UNCHANGED <<sess, made>>
       ELSE /\ sess' = [sess EXCEPT ![r] =
                           Append(@, Row(r, made[r] + 1, "Content",
                                         sess[r][Len(sess[r])].id, 0, 0))]
            /\ made' = [made EXCEPT ![r] = @ + 1]
            /\ pc' = [pc EXCEPT ![r] = "s_lesson"]
            /\ loc' = [loc EXCEPT ![r].srcs = Append(@, loc[r].i)]
    /\ UNCHANGED <<gvars, cvars, cfg, collab, rq, table, next_id, fs, out>>

\* try: lesson = create_lesson_from_content(...); db.session.add(lesson)
\* except Exception: pass
SearchLesson(r) ==
    /\ pc[r] = "s_lesson" /\ rq[r].route = "search"
    /\ \/ /\ sess' = [sess EXCEPT ![r] =
                         Append(@, Row(r, made[r] + 1, "Lesson", 0, 0, 0))]
          /\ made' = [made EXCEPT ![r] = @ + 1]
          /\ \/ loc' = [loc EXCEPT ![r].srcs = Append(@, loc[r].i),
                                   ![r].lesson = IF @ = "invalid" THEN @ ELSE "valid"]
             \/ /\ collab = "any"
                /\ loc' = [loc EXCEPT ![r].srcs = Append(@, loc[r].i),
                                      ![r].lesson = "invalid"]
       \/ /\ collab = "any"
          /\ UNCHANGED <<sess, made, loc>>
    /\ pc' = [pc EXCEPT ![r] = "s_remove"]
    /\ UNCHANGED <<gvars, cvars, cfg, collab, rq, table, next_id, fs, out>>

\* processed_results.append(...); try: os.remove(temp_path) except Exception: pass
SearchRemove(r) ==
    /\ pc[r] = "s_remove" /\ rq[r].route = "search"
    /\ \/ fs' = [fs EXCEPT ![loc[r].filename] = NoFile]
       \/ /\ collab = "any"
          /\ fs' = fs
    /\ loc' = [loc EXCEPT ![r].processed = @ + 1]
    /\ pc' = [pc EXCEPT ![r] = "s_tail"]
    /\ UNCHANGED <<gvars, cvars, cfg, collab, rq, sess, made, table, next_id, out>>

\* content = extract_webpage_content(url); if content and len(content) > 100
SearchPage(r) ==
    /\ pc[r] = "s_page" /\ rq[r].route = "search"
    /\ \E c \in PageContents(collab) :
         /\ loc' = [loc EXCEPT ![r].page = c]
         /\ pc' = [pc EXCEPT ![r] = IF c = "long" THEN "s_page_document" ELSE "s_tail"]
    /\ UNCHANGED <<gvars, cvars, cfg, collab, rq, sess, made, table, next_id, fs, out>>

\* document = Document(filename=f"web_...", ...); add; flush
SearchPageDocument(r) ==
    /\ pc[r] = "s_page_document" /\ rq[r].route = "search"
    /\ SearchFlush(r, Append(sess[r], Row(r, made[r] + 1, "Document", 0, 0, 0)),
                   "s_page_content")
    /\ UNCHANGED <<gvars, cvars, cfg, collab, rq, table, fs, out>>

\* content_obj = Content(...); db.session.add(content_obj);
\* processed_results.append(...)
SearchPageContent(r) ==
    /\ pc[r] = "s_page_content" /\ rq[r].route = "search"
    /\ sess' = [sess EXCEPT ![r] =
                   Append(@, Row(r, made[r] + 1, "Content",
                                 sess[r][Len(sess[r])].id, 0, 0))]
    /\ made' = [made EXCEPT ![r] = @ + 1]
    /\ loc' = [loc EXCEPT ![r].srcs = Append(@, loc[r].i), ![r].processed = @ + 1]
    /\ pc' = [pc EXCEPT ![r] = "s_tail"]
    /\ UNCHANGED <<gvars, cvars, cfg, collab, rq, table, next_id, fs, out>>

\* The block after the if/else, run for every result:
\*     if content and len(content) > 100: document = Document(original_filename=...,
\* reading content raises UnboundLocalError until a page has been fetched, and
\* Document(...) raises TypeError on the keywords the class does not have.
SearchTail(r) ==
    /\ pc[r] = "s_tail" /\ rq[r].route = "search"
    /\ IF loc[r].page = "unbound"
       THEN Raise(r, Exc("UnboundLocalError", "code"), "s_skip")
       ELSE IF loc[r].page = "long"
       THEN Raise(r, Exc("TypeError", "code"), "s_skip")
       ELSE /\ loc' = [loc EXCEPT ![r].i = @ + 1]
            /\ pc' = [pc EXCEPT ![r] = "s_next"]
    /\ UNCHANGED <<gvars, cvars, cfg, collab, rq, sess, made, table, next_id, fs, out>>

\* except Exception as e: print(...); continue
SearchSkip(r) ==
    /\ pc[r] = "s_skip" /\ rq[r].route = "search"
    /\ loc' = [loc EXCEPT ![r].i = @ + 1, ![r].raised = @ \cup {loc[r].i}]
    /\ pc' = [pc EXCEPT ![r] = "s_next"]
    /\ UNCHANGED <<gvars, cvars, cfg, collab, rq, sess, made, table, next_id, fs, out>>

\* db.session.commit() after the loop, then flash(success) and the results page
SearchCommit(r) ==
    /\ pc[r] = "s_commit" /\ rq[r].route = "search"
    /\ \/ /\ ~loc[r].failed /\ loc[r].lesson # "invalid"
          /\ table' = table \cup RowSet(FlushRows(sess[r], next_id))
          /\ next_id' = next_id + Pending(sess[r])
          /\ sess' = [sess EXCEPT ![r] = <<>>]
          /\ out' = [out EXCEPT ![r] =
                        Respond("results", "success",
                                "Successfully processed N web results!", NoExc)]
          /\ pc' = [pc EXCEPT ![r] = "done"]
          /\ loc' = loc
       \/ /\ loc[r].failed \/ loc[r].lesson = "invalid" \/ collab = "any"
          /\ Raise(r, IF loc[r].lesson = "invalid" /\ ~loc[r].failed
                      THEN LessonRejected
                      ELSE Exc("SQLAlchemyError", "db"), "s_except")
          /\ UNCHANGED <<table, next_id, sess, out>>
    /\ UNCHANGED <<gvars, cvars, cfg, collab, rq, made, fs>>

\* except Exception as e: db.session.rollback(); flash(error); redirect
SearchExcept(r) ==
    /\ pc[r] = "s_except" /\ rq[r].route = "search"
    /\ sess' = [sess EXCEPT ![r] = <<>>]
    /\ \/ out' = [out EXCEPT ![r] =
                     Respond("redirect", "error", "Error performing web search: ",
                             loc[r].exc)]
       \/ /\ collab = "any"
          /\ out' = [out EXCEPT ![r] =
                        Respond("error500", "none", "none",
                                Exc("SQLAlchemyError", "db"))]
    /\ pc' = [pc EXCEPT ![r] = "done"]
    /\ UNCHANGED <<gvars, cvars, cfg, collab, rq, loc, made, table, next_id, fs>>

WebSearch(r) ==
    \/ SearchPost(r)
    \/ SearchParse(r)
    \/ SearchPerform(r)
    \/ SearchNext(r)
    \/ SearchDownload(r)
    \/ SearchExtract(r)
    \/ SearchGenerate(r)
    \/ SearchAddDocument(r)
    \/ SearchAddContent(r)
    \/ SearchLesson(r)
    \/ SearchRemove(r)
    \/ SearchPage(r)
    \/ SearchPageDocument(r)
    \/ SearchPageContent(r)
    \/ SearchTail(r)
    \/ SearchSkip(r)
    \/ SearchCommit(r)
    \/ SearchExcept(r)

\* ------------------------------------------------------- specifications

\* One ingestion request, every input and every failure of a collaborator.
Init ==
    /\ GenInit
    /\ CallInit
    /\ IngestInit(Envs, "any", [r \in Reqs |-> IF r = 1 THEN "idle" ELSE "off"],
                  [r \in Reqs |-> NoRequest])

Next == \E r \in Reqs : Upload(r) \/ ProcessText(r) \/ ProcessWebpage(r)

Spec == Init /\ [][Next]_vars

\* Uploads of the same file at once, the LLM backend configured, and no
\* collaborator failing: what goes wrong is the doing of the other request.
RaceUpload ==
    [route |-> "upload", has_file |-> TRUE, filename |-> <<"a", ".", "t", "x", "t">>,
     text |-> ChunkShort, readable |-> TRUE, subject |-> DefaultSubject]

InitRace ==
    /\ GenInit
    /\ CallInit
    /\ IngestInit({ e \in Envs : e.OPENAI_API_KEY /\ ~e.HUGGINGFACE_API_KEY }, "good",
                  [r \in Reqs |-> "received"], [r \in Reqs |-> RaceUpload])

NextRace ==
    \E r \in Reqs :
        \/ UploadAccept(r)
        \/ UploadSave(r)
        \/ UploadExtract(r)
        \/ UploadGenerate(r)
        \/ UploadAddDocument(r)
        \/ UploadAddContent(r)
        \/ UploadFlashcards(r)
        \/ UploadAddFlashcards(r)
        \/ UploadQuestions(r)
        \/ UploadAddQuestions(r)
        \/ UploadLesson(r)
        \/ UploadCommit(r)
        \/ UploadRemove(r)
        \/ UploadExcept(r)
        \/ UploadCleanup(r)
        \/ UploadCleanupRemove(r)

SpecRace == InitRace /\ [][NextRace]_vars

\* Calls of the generator functions on their own.
InitGen ==
    /\ GenInit
    /\ CallInit
    /\ IngestInit({NoInput.env}, "any", [r \in Reqs |-> "off"],
                  [r \in Reqs |-> NoRequest])

SpecGen == InitGen /\ [][GenNext]_vars

\* Calls of perform_web_search.
SpecProviders == InitGen /\ [][CallPerformWebSearch]_vars

\* Calls of extract_youtube_content.
SpecYoutube == InitGen /\ [][CallExtractYoutube]_vars

\* Calls of generate_ai_content that reach generate_enhanced_basic_content.
SpecBasic == InitGen /\ [][CallBasic]_vars

\* Calls of generate_ai_content that reach generate_openai_content.
SpecPrimary == InitGen /\ [][CallPrimary]_vars

\* One web search, every input and every failure of a collaborator.
NextSearch == \E r \in Reqs : WebSearch(r)

SpecSearch == Init /\ [][NextSearch]_vars

\* Requests of the lesson read endpoints.
SpecLessons == InitGen /\ [][CallEndpoint]_vars

\* the positions of a handler
Labels ==
    {"off", "idle", "received", "save", "extract", "generate", "add_document",
     "add_content", "flashcards", "add_flashcards", "questions", "add_questions",
     "lesson", "commit", "remove", "except", "cleanup", "cleanup_remove", "done"}

\* The thread that serves request r runs: the request leaves the position it is
\* at. Where it goes is what Next says.
Run(r) ==
    /\ pc[r] \notin {"off", "done"}
    /\ \E l \in Labels \ {pc[r]} : pc' = [pc EXCEPT ![r] = l]

\* One ingestion request whose handler, once entered, runs to its return: the
\* handler is synchronous, and each of its blocking calls returns or raises.
SpecLive == Spec /\ \A r \in Reqs : WF_pc(Run(r))

\* ================================================================ claims

\* generate_ai_content has been called and has returned
Generated == gai.tiers # <<>>

PrimaryAvailable == gin.env.OPENAI_API_KEY /\ gin.env.api_key

PrimaryFailed ==
    PrimaryAvailable
    /\ generate_openai_content(gin.text, gin.subject, gin.llm).kind = "raise"

TierRank(t) == CASE t = "openai" -> 1 [] t = "huggingface" -> 2 [] t = "basic" -> 3

InTiers(t) == \E i \in 1..Len(gai.tiers) : gai.tiers[i] = t

\* C3: generate_ai_content never raises and always returns a bundle with a
\* non-empty summary and at most 5 key concepts, whatever backends are configured
\* and whether the attempted backend call succeeds or fails.
C3_AlwaysBundle ==
    Generated =>
        /\ gai.kind = "bundle"
        /\ gai.bundle.summary # <<>>
        /\ gai.bundle.key_concepts.type = "list"
        /\ Len(gai.bundle.key_concepts.items) <= MaxConcepts

\* C4: generate_flashcards and generate_questions never raise when called with
\* the key_concepts value returned by generate_ai_content, whether or not an LLM
\* backend is configured.
C4_DerivedNeverRaise ==
    (Generated /\ gstage \in {"flashcards", "questions"}) => gout.kind # "raise"

\* C6: generate_flashcards returns at most 5 items and generate_questions at most
\* 3, on the LLM path and on the deterministic path.
C6_DerivedBounds ==
    /\ (gstage = "flashcards" /\ gout.kind = "list")
           => Len(gout.items) <= MaxFlashcards
    /\ (gstage = "questions" /\ gout.kind = "list")
           => Len(gout.items) <= MaxQuestions

Committed(r) == { row \in table : row.req = r }

IsUpload(r) == rq[r].route = "upload"

Returned(r) == pc[r] = "done"

\* C1: ingestion is all-or-nothing on every route and at every point of failure:
\* the committed rows of a request are all the rows it created or none of them,
\* never a strict subset.
C1_AllOrNothing ==
    \A r \in Reqs : Cardinality(Committed(r)) \in {0, made[r]}

\* C1 witness: a request that failed after its Document, Content and a Flashcard
\* had been added and flushed has returned with none of them visible.
C1_Witness ==
    \E r \in Reqs :
        /\ Returned(r) /\ out[r].category = "error"
        /\ made[r] >= 3
        /\ Committed(r) = {}

\* C2: once upload_document has saved the file to its temporary path, the file
\* no longer exists when the request returns, whatever was raised on the way.
C2_TempFileRemoved ==
    \A r \in Reqs :
        (Returned(r) /\ IsUpload(r) /\ loc[r].saved)
            => ~fs[loc[r].filename].exists

\* The state of the ingestion state machine a request is in: Extracting while the
\* upload is saved and read, Generating in the calls that produce the bundle, the
\* flashcards and the questions, Persisting in the statements that add, flush and
\* commit rows, Committed once the commit has succeeded, Failed from the moment an
\* exception is caught or leaves the handler, Rejected after a failed validation.
Phase(r) ==
    CASE pc[r] \in {"off", "idle", "received"} -> "Received"
      [] pc[r] \in {"save", "extract"} -> "Extracting"
      [] pc[r] \in {"generate", "flashcards", "questions"} -> "Generating"
      [] pc[r] \in {"add_document", "add_content", "add_flashcards",
                    "add_questions", "lesson", "commit"} -> "Persisting"
      [] pc[r] = "remove" -> "Committed"
      [] pc[r] \in {"except", "cleanup", "cleanup_remove"} -> "Failed"
      [] pc[r] = "done" ->
            IF out[r].resp = "redirect_content" THEN "Committed"
            ELSE IF out[r].exc # NoExc THEN "Failed" ELSE "Rejected"

\* the transitions of the state machine as the specification draws it
ClaimedSteps ==
    {<<"Received", "Extracting">>, <<"Received", "Rejected">>,
     <<"Extracting", "Generating">>, <<"Generating", "Persisting">>,
     <<"Persisting", "Committed">>,
     <<"Extracting", "Failed">>, <<"Generating", "Failed">>,
     <<"Persisting", "Failed">>}

\* the transitions upload_document makes
ActualSteps ==
    ClaimedSteps \cup {<<"Persisting", "Generating">>, <<"Committed", "Failed">>}

\* a step of upload r changes its state only along one of the given transitions
StepsWithin(r, steps) ==
    (rq'[r].route = "upload" /\ Phase(r)' # Phase(r))
        => <<Phase(r), Phase(r)'>> \in steps

\* after the handler has returned the request moves and writes no more
Final(r) ==
    Returned(r) =>
        /\ pc'[r] = pc[r]
        /\ Committed(r)' = Committed(r)
        /\ sess'[r] = sess[r]

\* every request that was received returns
AllReturn == <>(\A r \in Reqs : pc[r] \in {"off", "done"})

C8_ConcurrentUploadsCommit ==
    \A r \in Reqs :
        /\ loc[r].read_from \in {0, r}
        /\ Returned(r) =>
              /\ out[r].resp = "redirect_content"
              /\ \E d, c \in Committed(r) : d.t = "Document" /\ c.t = "Content"

\* C9: with the LLM backend configured, no response of it makes an upload fail:
\* the upload returns Committed and no error that originates from the AI calls
\* is shown.
C9_NoBackendError ==
    \A r \in Reqs :
        (Returned(r) /\ IsUpload(r) /\ cfg.OPENAI_API_KEY /\ cfg.api_key
         /\ out[r].exc.origin \notin {"extraction", "db", "fs"})
            => /\ out[r].exc.origin # "ai"
               /\ (loc[r].saved => out[r].resp = "redirect_content")

\* an upload request that validation has to reject
Invalid(q) == ~q.has_file \/ q.filename = <<>> \/ ~allowed_file(q.filename)

\* C10: an upload with no file, an empty filename or a filename whose extension
\* is not allowed is rejected with a user-visible validation error and changes
\* nothing: no file saved, no extraction, nothing added to the session.
C10_RejectShowsError ==
    \A r \in Reqs :
        (Returned(r) /\ IsUpload(r) /\ Invalid(rq[r]))
            => /\ out[r].category = "error"
               /\ ~loc[r].saved /\ loc[r].read_from = 0
               /\ made[r] = 0 /\ sess[r] = <<>>
               /\ \A f \in Paths : ~fs[f].exists

\* str(e): the message of an exception, one atom per kind of exception
Str(e) == <<e.type>>

\* the text flash() showed: the literal part of the f-string, then str(e)
FlashText(o) ==
    IF o.category = "none" THEN <<>>
    ELSE IF o.exc = NoExc THEN <<o.message>>
    ELSE <<o.message>> \o Str(o.exc)

\* extract_document_content raised in request r
ExtractionRaised(r) == loc[r].exc.origin = "extraction"

\* C11: when extraction raises in upload_document the ingestion fails without
\* generating or persisting anything, and when it returns the temporary file is
\* removed and the caller is shown the extraction error's message unmodified.
C11_ExtractionFailure ==
    \A r \in Reqs :
        (IsUpload(r) /\ ExtractionRaised(r)) =>
            /\ loc[r].ai = NoResult
            /\ made[r] = 0 /\ Committed(r) = {}
            /\ Phase(r) = "Failed"
            /\ Returned(r) =>
                  /\ ~fs[loc[r].filename].exists
                  /\ FlashText(out[r]) = Str(loc[r].exc)

\* the committed rows of a table that request r wrote
Written(r, t) == { row \in Committed(r) : row.t = t }

IsChild(row) == row.t \in {"Flashcard", "Question"}

\* C12: every committed Flashcard and Question row is linked to exactly one
\* owner: exactly one of lesson_id and content_id is set.
C12_ExactlyOneOwner ==
    \A row \in table :
        IsChild(row) => ((row.lesson_id # 0) # (row.content_id # 0))

\* id is the generated identifier of a row of table t the same request wrote
OwnParent(row, t, id) == id # 0 /\ \E parent \in Written(row.req, t) : parent.id = id

\* C13: the parent id a committed child row stores is the generated identifier
\* of a parent row the same ingestion wrote: a Content refers to its Document, a
\* Flashcard or Question to its Content or Lesson; never null, never a foreign row.
C13_FlushBeforeReference ==
    \A row \in table :
        /\ row.t = "Content" => OwnParent(row, "Document", row.document_id)
        /\ IsChild(row) =>
              /\ row.content_id # 0 \/ row.lesson_id # 0
              /\ row.content_id # 0 => OwnParent(row, "Content", row.content_id)
              /\ row.lesson_id # 0 => OwnParent(row, "Lesson", row.lesson_id)

\* C14: upload_document reports success only if the records of the ingestion are
\* committed, and an error only if none of them is.
C14_OutcomeMatchesState ==
    \A r \in Reqs :
        (Returned(r) /\ IsUpload(r)) =>
            /\ out[r].category = "success" =>
                  (Written(r, "Document") # {} /\ Written(r, "Content") # {})
            /\ out[r].category = "error" => Committed(r) = {}

\* the synthesized Lesson of request r failed: building or adding it raised, or
\* the database rejected it
LessonFailed(r) == loc[r].lesson \in {"raised", "invalid"}

\* C16: a failure of the synthesized Lesson, while it is built, added or written,
\* never makes the ingestion fail: the handler never catches the Lesson's
\* exception, and when nothing else raises the upload returns with its Document
\* and Content committed.
C16_LessonBestEffort ==
    \A r \in Reqs :
        (IsUpload(r) /\ LessonFailed(r)) =>
            /\ loc[r].exc # LessonRejected
            /\ (Returned(r) /\ loc[r].exc = NoExc) =>
                  (Written(r, "Document") # {} /\ Written(r, "Content") # {})

\* ------------------------------------------ claims about the generators

\* generate_flashcards or generate_questions has been called and has returned
Derived == gstage \in {"flashcards", "questions"}

\* what the deterministic generator of the call gives for its key concepts
BasicOutput ==
    IF gstage = "flashcards" THEN generate_basic_flashcards(gin.text, gkc)
    ELSE generate_basic_questions(gin.text, gkc)

\* the backend was not called, or the call raised
NoAnswer == ~gin.env.api_key \/ greply.st = "raise"

\* the backend answered something that is no JSON, or JSON that is no list
Unparsed == gin.env.api_key /\ greply.st = "text"

NotAList == gin.env.api_key /\ greply.st = "json_other"

\* C15 (as claimed): whenever the LLM call fails or its response does not parse as
\* a JSON list, valid JSON that is not a list included, the result is exactly the
\* output of the deterministic generator for the given key concepts.
C15_FallbackOnEveryFailure ==
    (Derived /\ (NoAnswer \/ Unparsed \/ NotAList)) => gout = BasicOutput

\* C15 (amended): whenever the LLM call fails or its response is not valid JSON,
\* the result is exactly the output of the deterministic generator for the given
\* key concepts; a response that is valid JSON but not a list gives the empty
\* list, without a fallback.
C15_FallbackUnlessJson ==
    /\ (Derived /\ (NoAnswer \/ Unparsed)) => gout = BasicOutput
    /\ (Derived /\ NotAList) => gout = Returns(<<>>)

\* C15 witness: the backend answered text that is no JSON, and the result is the
\* non-empty list the deterministic generator makes of the concepts.
C15_Witness ==
    /\ Derived /\ Unparsed
    /\ gout = BasicOutput
    /\ gout.kind = "list" /\ gout.items # <<>>

\* C17: the key_concepts of every bundle the generator returns is a list of at
\* most 5 entries, on the LLM path and on the deterministic path.
C17_ConceptsTruncated ==
    (Generated /\ gai.kind = "bundle") =>
        /\ gai.bundle.key_concepts.type = "list"
        /\ Len(gai.bundle.key_concepts.items) <= MaxConcepts

\* C17 witness: the backend answered with six concept lines and the bundle keeps
\* the first five.
C17_Witness ==
    /\ Generated /\ gai.kind = "bundle"
    /\ gai.tiers = <<"openai">>
    /\ ~gin.llm.client /\ gin.llm.legacy = Answers(ResponseFull)
    /\ gai.bundle.key_concepts.items = <<<<"a">>, <<"b">>, <<"c">>, <<"d">>, <<"e">>>>

EmptyConcepts(kc) ==
    IF kc.type = "list" THEN kc.items = <<>>
    ELSE \A i \in 1..Len(kc.chars) : kc.chars[i] \in Whitespace \cup {","}

\* C19: given an empty or whitespace-only key-concepts value, the deterministic
\* flashcard and question generators return the empty list and do not raise.
C19_EmptyConceptsGiveEmptyList ==
    (Derived /\ NoAnswer /\ EmptyConcepts(gkc)) => gout = Returns(<<>>)

\* ------------------------------------ claims about extract_document_content

\* the file types extract_document_content has an extractor for
SupportedTypes ==
    {<<"p", "d", "f">>, <<"d", "o", "c", "x">>, <<"t", "x", "t">>, <<"m", "d">>,
     <<"p", "p", "t">>, <<"p", "p", "t", "x">>}

\* the declared type of the file name is one of them
Supported(filename) ==
    /\ Len(RSplitDot(filename)) = 2
    /\ Lower(RSplitDot(filename)[2]) \in SupportedTypes

\* extract_document_content returned text to the handler
ExtractionReturned(r) == loc[r].read_from # 0 \/ loc[r].content # <<>>

UnsupportedFormat == Exc("ValueError", "extraction")

\* C20: for a file name whose declared type is outside the supported set, a name
\* with no extension included, extract_document_content returns no text and
\* fails with the unsupported-format error; for a type inside the set the only
\* failure is that of the type's extractor.
C20_UnsupportedFormat ==
    \A r \in Reqs :
        IsUpload(r) =>
            /\ ~Supported(loc[r].filename) =>
                  /\ ~ExtractionReturned(r)
                  /\ ExtractionRaised(r) => loc[r].exc = UnsupportedFormat
            /\ (Supported(loc[r].filename) /\ ExtractionRaised(r)) =>
                  loc[r].exc = Exc("Exception", "extraction")

\* ------------------------------------ claims about generate_openai_content

\* the primary backend answered the last call of generate_ai_content
PrimaryAnswered == Generated /\ gai.tiers = <<"openai">> /\ gai.kind = "bundle"

\* ai_response: what the backend answered
RawResponse ==
    IF ModernResponse(gin.llm).st = "text" THEN ModernResponse(gin.llm).text
    ELSE gin.llm.legacy.text

\* the loop's variables after the last line of the response
Parsed ==
    ParseLines(SplitOn(RawResponse, "\n"),
               [current_section |-> "None", summary |-> <<>>,
                key_concepts |-> <<>>, notes |-> RawResponse])

NoSummaryParsed == Parsed.summary = <<>>

\* C24 (as claimed): when parsing yields an empty summary, the returned summary is
\* the first 200 characters of the raw response: a prefix of it, never longer
\* than 200.
C24_SummaryIsPrefix ==
    (PrimaryAnswered /\ NoSummaryParsed) =>
        /\ Len(gai.bundle.summary) <= SummaryFallbackLen
        /\ gai.bundle.summary = Take(RawResponse, SummaryFallbackLen)

\* C24 (amended): when parsing yields an empty summary, the returned summary is
\* the raw response when that has at most 200 characters, and otherwise its first
\* 200 characters followed by "...": it is never longer than 203.
C24_SummaryIsPrefixWithEllipsis ==
    (PrimaryAnswered /\ NoSummaryParsed) =>
        /\ Len(gai.bundle.summary) <= SummaryFallbackLen + 3
        /\ Take(gai.bundle.summary, SummaryFallbackLen)
              = Take(RawResponse, SummaryFallbackLen)
        /\ Len(RawResponse) <= SummaryFallbackLen => gai.bundle.summary = RawResponse
        /\ Len(RawResponse) > SummaryFallbackLen =>
              Drop(gai.bundle.summary, SummaryFallbackLen) = <<".", ".", ".">>

C24_Witness ==
    /\ PrimaryAnswered /\ NoSummaryParsed
    /\ Len(RawResponse) > SummaryFallbackLen + 3
    /\ Len(gai.bundle.summary) = SummaryFallbackLen + 3

\* the primary backend was called by the last call of generate_ai_content
PrimaryCalled == Generated /\ Head(gai.tiers) = "openai"

\* the text that call put in its prompt
Submitted == generate_openai_content(gin.text, gin.subject, gin.llm).submitted

\* C26 (as claimed): the source text submitted to the primary backend is never
\* longer than 2000 characters.
C26_SubmittedAtMost2000 ==
    PrimaryCalled => Len(Submitted) <= max_text_length

\* C26 (amended): the submitted source text is the input text when that has at
\* most 2000 characters, and otherwise its first 2000 characters followed by
\* "...": it is never longer than 2003 characters.
C26_SubmittedAtMost2003 ==
    PrimaryCalled =>
        /\ Len(Submitted) <= max_text_length + 3
        /\ Take(Submitted, max_text_length) = Take(gin.text, max_text_length)
        /\ Len(gin.text) <= max_text_length => Submitted = gin.text
        /\ Len(gin.text) > max_text_length =>
              Drop(Submitted, max_text_length) = <<".", ".", ".">>

C26_Witness ==
    /\ PrimaryCalled
    /\ Len(gin.text) > max_text_length + 3
    /\ Len(Submitted) = max_text_length + 3

\* the lines of the response, each stripped
ResponseLines ==
    LET lines == SplitOn(RawResponse, "\n")
    IN  [i \in 1..Len(lines) |-> Strip(lines[i], Whitespace)]

SectionOf(label) ==
    CASE label = "SUMMARY:" -> "summary"
      [] label = "KEY_CONCEPTS:" -> "concepts"
      [] label = "NOTES:" -> "notes"

\* line i starts with one of the three prefixes
Prefixed(i) ==
    /\ ResponseLines[i] # <<>>
    /\ ResponseLines[i][1] \in {"SUMMARY:", "KEY_CONCEPTS:", "NOTES:"}

\* what follows the prefix of line i
Remainder(i) == Strip(Tail(ResponseLines[i]), Whitespace)

\* the prefixed lines before line i, and the cursor when line i is read
PrefixedBefore(i) == { j \in 1..(i - 1) : Prefixed(j) }

CursorAt(i) ==
    IF PrefixedBefore(i) = {} THEN "None"
    ELSE LET j == CHOOSE k \in PrefixedBefore(i) : \A l \in PrefixedBefore(i) : l <= k
         IN  SectionOf(ResponseLines[j][1])

\* the concept line i contributes, if any
ConceptOf(i) ==
    IF Prefixed(i)
    THEN IF ResponseLines[i][1] = "KEY_CONCEPTS:" /\ Remainder(i) # <<>>
         THEN <<Remainder(i)>>
         ELSE <<>>
    ELSE IF ResponseLines[i] # <<>> /\ CursorAt(i) = "concepts"
         THEN <<ResponseLines[i]>>
         ELSE <<>>

RECURSIVE ConceptsUpTo(_)
ConceptsUpTo(n) == IF n = 0 THEN <<>> ELSE ConceptsUpTo(n - 1) \o ConceptOf(n)

\* the lines with the given prefix, and the remainder of the last of them
LinesWith(label) ==
    { i \in 1..Len(ResponseLines) : Prefixed(i) /\ ResponseLines[i][1] = label }

LastRemainder(label) ==
    Remainder(CHOOSE k \in LinesWith(label) : \A l \in LinesWith(label) : l <= k)

\* C25: the parser reads the lines in order with a current-section cursor: a
\* prefixed line switches the cursor and its remainder becomes the content of its
\* section (the first concept, for KEY_CONCEPTS:), and a non-empty unprefixed
\* line becomes a concept exactly when the cursor is at the concepts section.
C25_SectionCursor ==
    PrimaryAnswered =>
        /\ Parsed.current_section = CursorAt(Len(ResponseLines) + 1)
        /\ Parsed.key_concepts = ConceptsUpTo(Len(ResponseLines))
        /\ LinesWith("SUMMARY:") # {} => Parsed.summary = LastRemainder("SUMMARY:")
        /\ LinesWith("NOTES:") # {} =>
              /\ Parsed.notes = LastRemainder("NOTES:")
              /\ gai.bundle.notes = LastRemainder("NOTES:")
        /\ gai.bundle.key_concepts.items =
              IF ConceptsUpTo(Len(ResponseLines)) = <<>>
              THEN PlaceholderConcepts(gin.subject)
              ELSE Take(ConceptsUpTo(Len(ResponseLines)), MaxConcepts)
        /\ (LinesWith("SUMMARY:") # {} /\ LastRemainder("SUMMARY:") # <<>>) =>
              gai.bundle.summary = LastRemainder("SUMMARY:")

\* ---------------------------- claims about generate_enhanced_basic_content

\* the deterministic fallback answered the last call of generate_ai_content
BasicAnswered == Generated /\ gai.tiers = <<"basic">>

\* the sentences of the text, and whether sentence i is longer than 20 characters
TextSentences == SplitOn(gin.text, ".")

IsLong(i) == Len(Strip(TextSentences[i], Whitespace)) > MinSentenceLen

\* the sentences with an index in K, from the i-th on, stripped and joined by ". "
RECURSIVE JoinOf(_, _)
JoinOf(i, K) ==
    IF i > Len(TextSentences) THEN <<>>
    ELSE IF i \notin K THEN JoinOf(i + 1, K)
    ELSE LET rest == JoinOf(i + 1, K)
             t    == Strip(TextSentences[i], Whitespace)
         IN  IF rest = <<>> THEN t ELSE t \o <<".", " ">> \o rest

\* the first three of the sentences longer than 20 characters
FirstLong ==
    { i \in 1..Len(TextSentences) :
        IsLong(i) /\ Cardinality({ j \in 1..(i - 1) : IsLong(j) }) < MaxSentences }

\* those of the first three sentences that are longer than 20 characters
LongOfFirst == { i \in 1..Min(MaxSentences, Len(TextSentences)) : IsLong(i) }

\* C27 (as claimed): the summary of the deterministic fallback is built from the
\* first one to three sentences of the text that are longer than 20 characters,
\* and is the generic sentence only when no sentence of the text is that long.
C27_FirstLongSentences ==
    BasicAnswered =>
        /\ FirstLong # {} => gai.bundle.summary = JoinOf(1, FirstLong)
        /\ gai.bundle.summary = GenericSummary(gin.subject) => FirstLong = {}

\* C27 (amended): the summary is built from those of the first three sentences of
\* the text that are longer than 20 characters, and is the generic sentence
\* exactly when none of the first three sentences is that long.
C27_LongOfFirstThree ==
    BasicAnswered =>
        /\ LongOfFirst # {} => gai.bundle.summary = JoinOf(1, LongOfFirst)
        /\ gai.bundle.summary = GenericSummary(gin.subject) <=> LongOfFirst = {}

\* the fourth sentence is the only one longer than 20 characters
C27_Witness ==
    /\ BasicAnswered
    /\ LongOfFirst = {} /\ FirstLong = {4}
    /\ gai.bundle.summary = GenericSummary(gin.subject)

\* ------------------------------------ claims about extract_youtube_content

\* an English track is listed and fetching it gives its captions
ManualAvailable == arg.info.subtitles = "en" /\ arg.manual = "text"

AutoAvailable == arg.info.automatic_captions = "en" /\ arg.auto = "text"

\* C28: extract_youtube_content returns the manual English captions when they
\* are available, the automatic ones when only those are (also when a manual
\* track is listed and fetching it does not succeed), and the title and
\* description only when neither is available.
C28_CaptionPreference ==
    (fn = "extract_youtube_content" /\ ret.kind = "dict") =>
        /\ ManualAvailable => ret.transcript = ManualCaptions
        /\ (~ManualAvailable /\ AutoAvailable) => ret.transcript = AutoCaptions
        /\ ret.transcript = TitleAndDescription(arg.info) =>
              (~ManualAvailable /\ ~AutoAvailable)

\* ----------------------------------------- claims about perform_web_search

SerpConfigured == arg.keys.SERPAPI_KEY

CseConfigured == arg.keys.GOOGLE_API_KEY /\ arg.keys.GOOGLE_CSE_ID

\* the provider is configured and answers with at least one result
SerpYields == SerpConfigured /\ arg.serp.st = "items" /\ arg.serp.n > 0

CseYields == CseConfigured /\ arg.cse.st = "items" /\ arg.cse.n > 0

\* C29: perform_web_search returns the results of SerpAPI when it yields any,
\* else those of Google Custom Search when it yields any, and else (no provider
\* configured, or every configured one failing or yielding nothing) exactly the
\* one placeholder result: never an empty list.
C29_ProviderFallback ==
    fn = "perform_web_search" =>
        /\ ret # <<>>
        /\ SerpYields => ret = Take(Hits("serpapi", arg.serp.n), max_results)
        /\ (~SerpYields /\ CseYields) => ret = Hits("google", arg.cse.n)
        /\ (~SerpYields /\ ~CseYields) => ret = Placeholder(arg.query)

\* ------------------------------------------------------------ web_search

IsSearch(r) == rq[r].route = "search"

\* the result a committed row of a web search was added for
ResultOf(row) == loc[row.req].srcs[row.n]

\* the rows a web search committed for its k-th result
CommittedFor(r, k) == { row \in Committed(r) : ResultOf(row) = k }

\* C21: in web_search, when the processing of one search result raises after some
\* of its records were added or flushed, the final commit of the request commits
\* none of that result's records.
C21_NoPartialCommit ==
    \A r \in Reqs :
        IsSearch(r) => \A k \in loc[r].raised : CommittedFor(r, k) = {}

\* the Content rows a request committed for a Document row
ContentsOf(r, document) ==
    { row \in Committed(r) : row.t = "Content" /\ row.document_id = document.id }

Documents(rows) == { row \in rows : row.t = "Document" }

\* C22: after an ingestion or web_search request commits, every Document it
\* created has exactly one Content, and no single source (one upload, one text,
\* one web page, one search result) has produced more than one Document.
C22_OneDocumentOneContent ==
    \A r \in Reqs :
        /\ \A document \in Documents(Committed(r)) :
               Cardinality(ContentsOf(r, document)) = 1
        /\ IF IsSearch(r)
           THEN \A k \in 1..Len(loc[r].results) :
                    Cardinality(Documents(CommittedFor(r, k))) <= 1
           ELSE Cardinality(Documents(Committed(r))) <= 1

\* C23: the temporary file written for a downloaded pdf/docx result no longer
\* exists once that result has been processed, whether its extraction, generation
\* and persistence succeeded or any of them raised.
C23_TempFileRemoved ==
    \A r \in Reqs :
        IsSearch(r) /\ pc[r] = "s_next" /\ loc[r].wrote
            => fs[loc[r].filename] = NoFile

\* ---------------------------------------------------------------- lessons

\* a lesson endpoint was asked for an unpublished lesson by somebody who is not
\* its teacher
UnpublishedToStranger ==
    /\ fn \in Endpoints
    /\ arg.lesson.found /\ ~arg.lesson.is_published
    /\ arg.user # arg.lesson.teacher_id

\* C30: every read endpoint refuses an unpublished lesson for anonymous users
\* and for users who are not its teacher: none of its flashcards or questions
\* is in the response.
C30_UnpublishedRefused ==
    UnpublishedToStranger
        => ret.status # 200 /\ ret.flashcards = <<>> /\ ret.questions = <<>>

====
